---------------------------- MODULE Spec2Model ----------------------------
(***************************************************************************)
(* A model of the Concourse Python driver: the typed value codec           *)
(* (concourse/utils.py, concourse/types.py) and the keyword-argument       *)
(* dispatch of the client handle (concourse/concourse.py).                 *)
(*                                                                         *)
(* Host (Python) values are records tagged by their type in field t.       *)
(* Python integers are arbitrary precision: an integer is a sign and a     *)
(* big-endian base-256 magnitude without leading zeros, so that the 32-    *)
(* and 64-bit boundaries are real values of the model.                     *)

(***************************************************************************)
EXTENDS Integers, Sequences, FiniteSets, TLC

VARIABLES
    \* ---- codec: one conversion of one host value
    value,        \* the host value handed to python_to_thrift
    tobject,      \* what python_to_thrift produced (a TObject or an error)
    py,           \* what thrift_to_python produced from tobject
    phase,        \* "input" -> "encoded" -> "decoded"
    \* ---- client handle
    transaction,  \* self.transaction: None or a transaction token
    creds,        \* self.creds: the access token of the session
    issued,       \* server side: number of transaction tokens handed out
    op,           \* the last operation called on the handle, with its inputs
    calls,        \* the remote calls that operation invoked, in order
    outcome,      \* how it ended: "returned" or the exception raised
    result,       \* what it returned to the caller
    staged,       \* history: token of the latest stage() not yet committed/aborted
    unsent,       \* history: tokens stage() returned, not yet sent to commit/abort
    loginCreds    \* history: the access token login returned

vars == <<value, tobject, py, phase, transaction, creds, issued, op, calls,
          outcome, result, staged, unsent, loginCreds>>
codecVars == <<value, tobject, py, phase>>
clientVars ==
    <<transaction, creds, issued, op, calls, outcome, result, staged, unsent, loginCreds>>

----------------------------------------------------------------------------
(* Bounds of the model *)

\* longest host string (in code points) given to the codec
MaxStrLen == 2
\* number of transaction tokens the server hands out in one behaviour
MaxTokens == 2
\* longest list of destinations given to link / unlink
MaxDest == 2

----------------------------------------------------------------------------
(* Host values *)

None == [t |-> "none"]
PyBool(b) == [t |-> "bool", v |-> b]
PyStr(cps) == [t |-> "str", v |-> cps]
PyList(xs) == [t |-> "list", v |-> xs]
PyIntOf(neg, mag) == [t |-> "int", neg |-> neg, mag |-> mag]
\* an IEEE-754 double: sign bit, 11-bit biased exponent, 52-bit fraction
\* (fraction = a 4-bit nibble followed by six bytes)
PyFloat(s, e, m) == [t |-> "float", s |-> s, e |-> e, m |-> m]
\* any other host object; its __str__() is repr
PyObject(repr) == [t |-> "object", repr |-> repr]
\* a bytes object
PyBytes(bs) == [t |-> "bytes", v |-> bs]
Error(kind) == [t |-> "error", kind |-> kind]
IsError(x) == x.t = "error"

RECURSIVE NatToMag(_)
NatToMag(n) == IF n = 0 THEN <<>> ELSE NatToMag(n \div 256) \o <<n % 256>>
\* the Python integer n, for a small n of the model
I(n) == IF n < 0 THEN PyIntOf(TRUE, NatToMag(-n)) ELSE PyIntOf(FALSE, NatToMag(n))

\* isinstance(x, int): bool is a subclass of int
IsInt(x) == x.t \in {"int", "bool"}
IsStr(x) == x.t = "str"
IsList(x) == x.t = "list"
\* the integer a bool stands for (True is 1, False is 0)
AsInt(x) == IF x.t = "bool" THEN (IF x.v THEN I(1) ELSE I(0)) ELSE x

\* Python truthiness, as used by `or`, `and`, `not` and `if`
Truthy(x) ==
    CASE x.t = "none" -> FALSE
      [] x.t = "bool" -> x.v
      [] x.t = "int" -> x.mag # <<>>
      [] x.t = "float" -> ~(x.e = 0 /\ \A i \in 1..Len(x.m) : x.m[i] = 0)
      [] x.t = "str" -> x.v # <<>>
      [] x.t = "list" -> x.v # <<>>
      [] OTHER -> TRUE
\* a or b
Or(a, b) == IF Truthy(a) THEN a ELSE b

LexLess(a, b) ==
    \E i \in 1..Len(a) : a[i] < b[i] /\ \A j \in 1..(i - 1) : a[j] = b[j]
\* a and b differ first at a place where a is smaller
LexLessCommon(a, b) ==
    \E i \in 1..Len(a) :
        i <= Len(b) /\ a[i] < b[i] /\ \A j \in 1..(i - 1) : a[j] = b[j]
MagLess(a, b) == Len(a) < Len(b) \/ (Len(a) = Len(b) /\ LexLess(a, b))
\* x < y on Python integers
IntLess(x, y) ==
    CASE x.neg /\ ~y.neg -> TRUE
      [] ~x.neg /\ y.neg -> FALSE
      [] ~x.neg /\ ~y.neg -> MagLess(x.mag, y.mag)
      [] OTHER -> MagLess(y.mag, x.mag)

----------------------------------------------------------------------------
(* struct.pack / struct.unpack_from, big-endian *)

Zeros(n) == [i \in 1..n |-> 0]
Pad(bs, w) == Zeros(w - Len(bs)) \o bs
Invert(bs) == [i \in 1..Len(bs) |-> 255 - bs[i]]
RECURSIVE Increment(_)
Increment(bs) ==
    IF bs = <<>> THEN <<>>
    ELSE IF bs[Len(bs)] < 255 THEN [bs EXCEPT ![Len(bs)] = @ + 1]
    ELSE Increment(SubSeq(bs, 1, Len(bs) - 1)) \o <<0>>
RECURSIVE Strip(_)
Strip(bs) == IF bs # <<>> /\ bs[1] = 0 THEN Strip(Tail(bs)) ELSE bs

\* n fits a signed two's-complement integer of w bytes
FitsSigned(n, w) ==
    \/ Len(n.mag) < w
    \/ Len(n.mag) = w /\ n.mag[1] < 128
    \/ Len(n.mag) = w /\ n.neg /\ n.mag = <<128>> \o Zeros(w - 1)

\* packing that keeps the low w bytes of a number that does not fit
PackSigned_Wraps(n, w) ==
    LET mag == IF Len(n.mag) > w THEN SubSeq(n.mag, Len(n.mag) - w + 1, Len(n.mag))
               ELSE n.mag
    IN  IF n.neg THEN PyBytes(Increment(Invert(Pad(mag, w))))
        ELSE PyBytes(Pad(mag, w))
\* struct.pack(">i", n) (w = 4) and struct.pack(">q", n) (w = 8)
PackSigned(n, w) ==
    IF ~FitsSigned(n, w) THEN Error("struct.error")
    ELSE IF n.neg THEN PyBytes(Increment(Invert(Pad(n.mag, w))))
    ELSE PyBytes(Pad(n.mag, w))
\* struct.unpack_from(">i", data)[0] and struct.unpack_from(">q", data)[0]
UnpackSigned(data, w) ==
    IF Len(data) < w THEN Error("struct.error")
    ELSE LET bs == SubSeq(data, 1, w) IN
         IF bs[1] >= 128 THEN PyIntOf(TRUE, Strip(Increment(Invert(bs))))
         ELSE PyIntOf(FALSE, Strip(bs))

\* struct.pack(">?", b) and struct.unpack_from(">?", data)[0]
PackBool(b) == IF Truthy(b) THEN PyBytes(<<1>>) ELSE PyBytes(<<0>>)
UnpackBool(data) ==
    IF Len(data) < 1 THEN Error("struct.error") ELSE PyBool(data[1] # 0)

\* struct.pack(">d", f): sign, exponent and fraction laid out in 8 bytes
PackDouble(f) ==
    PyBytes(<<(f.s * 128) + (f.e \div 16), ((f.e % 16) * 16) + f.m[1]>>
            \o Tail(f.m))
UnpackDouble(data) ==
    IF Len(data) < 8 THEN Error("struct.error")
    ELSE PyFloat(data[1] \div 128,
                 ((data[1] % 128) * 16) + (data[2] \div 16),
                 <<data[2] % 16>> \o SubSeq(data, 3, 8))

RECURSIVE Log2(_)
\* position of the leading one bit of n > 0
Log2(n) == IF n < 2 THEN 0 ELSE 1 + Log2(n \div 2)
RECURSIVE Pow2(_)
Pow2(k) == IF k = 0 THEN 1 ELSE 2 * Pow2(k - 1)
\* the 52-bit fraction of the double whose 23 leading fraction bits are f
Widen(f) ==
    LET low == f % 524288 IN
    <<f \div 524288, low \div 2048, (low \div 8) % 256, (low % 8) * 32, 0, 0, 0>>
\* struct.unpack_from(">f", data)[0]: an IEEE-754 single, widened to the
\* double that a Python float is
UnpackFloat(data) ==
    IF Len(data) < 4 THEN Error("struct.error")
    ELSE LET s == data[1] \div 128
             e == ((data[1] % 128) * 2) + (data[2] \div 128)
             f == ((data[2] % 128) * 65536) + (data[3] * 256) + data[4]
         IN  IF e = 255 THEN PyFloat(s, 2047, Widen(f))
             ELSE IF e = 0 /\ f = 0 THEN PyFloat(s, 0, Widen(0))
             ELSE IF e = 0
                  THEN LET h == Log2(f) IN
                       PyFloat(s, 874 + h, Widen((f - Pow2(h)) * Pow2(23 - h)))
             ELSE PyFloat(s, e + 896, Widen(f))


----------------------------------------------------------------------------
(* bytes(s, 'utf-8') and data.decode('utf-8'); a string is a sequence of  *)
(* Unicode scalar values                                                    *)

Utf8Char(c) ==
    IF c < 128 THEN <<c>>
    ELSE IF c < 2048 THEN <<192 + (c \div 64), 128 + (c % 64)>>
    ELSE IF c < 65536
         THEN <<224 + (c \div 4096), 128 + ((c \div 64) % 64), 128 + (c % 64)>>
    ELSE <<240 + (c \div 262144), 128 + ((c \div 4096) % 64),
           128 + ((c \div 64) % 64), 128 + (c % 64)>>
RECURSIVE Utf8Bytes(_)
Utf8Bytes(cps) ==
    IF cps = <<>> THEN <<>> ELSE Utf8Char(Head(cps)) \o Utf8Bytes(Tail(cps))
Utf8Encode(cps) == PyBytes(Utf8Bytes(cps))

IsCont(bs, i) == i <= Len(bs) /\ bs[i] >= 128 /\ bs[i] < 192
RECURSIVE Utf8Scan(_, _)
\* decode bs, appending to the code points acc; an ill-formed sequence raises
Utf8Scan(bs, acc) ==
    IF bs = <<>> THEN PyStr(acc)
    ELSE LET b == bs[1] IN
         IF b < 128 THEN Utf8Scan(Tail(bs), Append(acc, b))
         ELSE IF b >= 194 /\ b < 224 /\ IsCont(bs, 2)
              THEN Utf8Scan(SubSeq(bs, 3, Len(bs)),
                            Append(acc, (b - 192) * 64 + (bs[2] - 128)))
         ELSE IF b >= 224 /\ b < 240 /\ IsCont(bs, 2) /\ IsCont(bs, 3)
                 /\ (b - 224) * 4096 + (bs[2] - 128) * 64 >= 2048
              THEN Utf8Scan(SubSeq(bs, 4, Len(bs)),
                            Append(acc, (b - 224) * 4096 + (bs[2] - 128) * 64
                                        + (bs[3] - 128)))
         ELSE IF b >= 240 /\ b < 245 /\ IsCont(bs, 2) /\ IsCont(bs, 3)
                 /\ IsCont(bs, 4)
                 /\ (b - 240) * 262144 + (bs[2] - 128) * 4096 >= 65536
              THEN Utf8Scan(SubSeq(bs, 5, Len(bs)),
                            Append(acc, (b - 240) * 262144 + (bs[2] - 128) * 4096
                                        + (bs[3] - 128) * 64 + (bs[4] - 128)))
         ELSE Error("UnicodeDecodeError")
Utf8Decode(bs) == Utf8Scan(bs, <<>>)

----------------------------------------------------------------------------
(* concourse/types.py *)

\* long division of a big-endian base-256 magnitude by ten, digit by digit:
\* <<quotient, remainder>>
RECURSIVE DivTen(_, _, _)
DivTen(mag, q, r) ==
    IF mag = <<>> THEN <<q, r>>
    ELSE LET n == r * 256 + Head(mag)
         IN  DivTen(Tail(mag), Append(q, n \div 10), n % 10)
\* the decimal digits of a magnitude, none for zero
RECURSIVE Digits(_)
Digits(mag) ==
    IF \A i \in 1..Len(mag) : mag[i] = 0 THEN <<>>
    ELSE LET d == DivTen(mag, <<>>, 0) IN Append(Digits(d[1]), 48 + d[2])
\* int.__str__()
IntStr(x) ==
    LET ds == Digits(x.mag)
    IN  IF ds = <<>> THEN <<48>> ELSE (IF x.neg THEN <<45>> ELSE <<>>) \o ds

\* repr(x) of an element of a list or dict (a string in quotes; the strings
\* of the model hold no quote or backslash), and value.__str__() of the host
\* values that reach it in the driver
\* str() of a TObject, which is generated code: the name of the class around
\* the bytes of its data
TObjectStr(x) == <<84, 79, 98, 106, 101, 99, 116, 40>> \o x.data \o <<41>>
RECURSIVE Repr(_)
RECURSIVE StrOf(_)
RECURSIVE JoinRepr(_)
RECURSIVE JoinItems(_)
JoinRepr(xs) ==
    IF xs = <<>> THEN <<>>
    ELSE IF Len(xs) = 1 THEN Repr(xs[1])
    ELSE Repr(xs[1]) \o <<44, 32>> \o JoinRepr(Tail(xs))
JoinItems(items) ==
    IF items = <<>> THEN <<>>
    ELSE LET one == Repr(items[1].k) \o <<58, 32>> \o Repr(items[1].v)
         IN  IF Len(items) = 1 THEN one
             ELSE one \o <<44, 32>> \o JoinItems(Tail(items))
Repr(x) == IF x.t = "str" THEN <<39>> \o x.v \o <<39>> ELSE StrOf(x)
StrOf(x) ==
    CASE x.t = "str" -> x.v
      [] x.t = "Tag" -> x.value
      [] x.t = "none" -> <<78, 111, 110, 101>>
      [] x.t = "object" -> x.repr
      [] x.t = "int" -> IntStr(x)
      [] x.t = "bool" -> IF x.v THEN <<84, 114, 117, 101>> ELSE <<70, 97, 108, 115, 101>>
      [] x.t = "list" -> <<91>> \o JoinRepr(x.v) \o <<93>>
      [] x.t = "dict" -> <<123>> \o JoinItems(x.v) \o <<125>>
      [] x.t = "TObject" -> TObjectStr(x)

\* Tag.create(value) / Tag.__init__
TagCreate(v) == [t |-> "Tag", value |-> StrOf(v)]

\* a constructor that checks nothing
LinkTo_Unchecked(record) == [t |-> "Link", record |-> record]
\* Link.to(record) / Link.__init__
LinkTo(record) ==
    IF ~IsInt(record) THEN Error("ValueError")
    ELSE [t |-> "Link", record |-> record]

\* the float f == the integer n, for the integers below 2^16 (the floats of
\* the model that are whole numbers are all that small)
FloatEqInt(f, n) ==
    LET abs == IF n.mag = <<>> THEN 0
               ELSE IF Len(n.mag) = 1 THEN n.mag[1] ELSE (n.mag[1] * 256) + n.mag[2]
        k == Log2(abs)
        frac == (abs - Pow2(k)) * Pow2(20 - k)
    IN  IF Len(n.mag) > 2 THEN FALSE
        ELSE IF abs = 0 THEN f.e = 0 /\ f.m = <<0, 0, 0, 0, 0, 0, 0>>
        ELSE /\ f.s = (IF n.neg THEN 1 ELSE 0)
             /\ f.e = 1023 + k
             /\ f.m = <<frac \div 65536, (frac \div 256) % 256, frac % 256, 0, 0, 0, 0>>

\* a == b of Python, with Tag.__eq__ and Link.__eq__
PyEq(a, b) ==
    CASE a.t = "Tag" -> b.t = "Tag" /\ a.value = b.value
      [] a.t = "Link" -> b.t = "Link" /\ AsInt(a.record) = AsInt(b.record)
      [] IsInt(a) /\ IsInt(b) -> AsInt(a) = AsInt(b)
      [] IsInt(a) /\ b.t = "float" -> FloatEqInt(b, AsInt(a))
      [] a.t = "float" /\ IsInt(b) -> FloatEqInt(a, AsInt(b))
      [] OTHER -> a = b

----------------------------------------------------------------------------
(* concourse/utils.py: the typed value codec *)

TObject(data, ttype) ==
    IF IsError(data) THEN data
    ELSE [t |-> "TObject", data |-> data.v, type |-> ttype]
IsTObject(x) == x.t = "TObject"

\* 2147483647 and -2147483648 of python_to_thrift
INT_MAX == PyIntOf(FALSE, <<127, 255, 255, 255>>)
INT_MIN == PyIntOf(TRUE, <<128, 0, 0, 0>>)

\* the integer test placed before the boolean test: a bool is an int
python_to_thrift_IntFirst(v) ==
    CASE IsInt(v) ->
            IF IntLess(INT_MAX, AsInt(v)) \/ IntLess(AsInt(v), INT_MIN)
            THEN TObject(PackSigned(AsInt(v), 8), "LONG")
            ELSE TObject(PackSigned(AsInt(v), 4), "INTEGER")
      [] v.t = "float" -> TObject(PackDouble(v), "DOUBLE")
      [] v.t = "Link" -> TObject(PackSigned(AsInt(v.record), 8), "LINK")
      [] v.t = "Tag" -> TObject(Utf8Encode(StrOf(v)), "TAG")
      [] OTHER -> TObject(Utf8Encode(StrOf(v)), "STRING")

\* the upper boundary compared with >= instead of >
python_to_thrift_OffByOne(v) ==
    CASE v.t = "bool" -> TObject(PackBool(v), "BOOLEAN")
      [] v.t = "int" ->
            IF ~IntLess(v, INT_MAX) \/ IntLess(v, INT_MIN)
            THEN TObject(PackSigned(v, 8), "LONG")
            ELSE TObject(PackSigned(v, 4), "INTEGER")
      [] v.t = "float" -> TObject(PackDouble(v), "DOUBLE")
      [] v.t = "Link" -> TObject(PackSigned(AsInt(v.record), 8), "LINK")
      [] v.t = "Tag" -> TObject(Utf8Encode(StrOf(v)), "TAG")
      [] OTHER -> TObject(Utf8Encode(StrOf(v)), "STRING")

python_to_thrift(v) ==
    CASE v.t = "bool" -> TObject(PackBool(v), "BOOLEAN")
      [] v.t = "int" ->
            IF IntLess(INT_MAX, v) \/ IntLess(v, INT_MIN)
            THEN TObject(PackSigned(v, 8), "LONG")
            ELSE TObject(PackSigned(v, 4), "INTEGER")
      [] v.t = "float" -> TObject(PackDouble(v), "DOUBLE")
      [] v.t = "Link" -> TObject(PackSigned(AsInt(v.record), 8), "LINK")
      [] v.t = "Tag" -> TObject(Utf8Encode(StrOf(v)), "TAG")
      [] OTHER -> TObject(Utf8Encode(StrOf(v)), "STRING")

\* Link.to applied to what struct.unpack_from returned
LinkFrom(r) == IF IsError(r) THEN r ELSE LinkTo(r)
\* Tag.create applied to what data.decode returned
TagFrom(r) == IF IsError(r) THEN r ELSE TagCreate(r)

\* a LONG payload read with the 4-byte format ">i"
thrift_to_python_ShortLong(tobj) ==
    LET data == tobj.data IN
    CASE tobj.type = "BOOLEAN" -> UnpackBool(data)
      [] tobj.type = "INTEGER" -> UnpackSigned(data, 4)
      [] tobj.type = "LONG" -> UnpackSigned(data, 4)
      [] tobj.type = "DOUBLE" -> UnpackDouble(data)
      [] tobj.type = "LINK" -> LinkFrom(UnpackSigned(data, 8))
      [] tobj.type = "TAG" -> TagFrom(Utf8Decode(data))
      [] tobj.type = "NULL" -> None
      [] OTHER -> Utf8Decode(data)

thrift_to_python(tobj) ==
    LET data == tobj.data IN
    CASE tobj.type = "BOOLEAN" -> UnpackBool(data)
      [] tobj.type = "INTEGER" -> UnpackSigned(data, 4)
      [] tobj.type = "LONG" -> UnpackSigned(data, 8)
      [] tobj.type = "DOUBLE" -> UnpackDouble(data)
      [] tobj.type = "FLOAT" -> UnpackFloat(data)
      [] tobj.type = "LINK" -> LinkFrom(UnpackSigned(data, 8))
      [] tobj.type = "TAG" -> TagFrom(Utf8Decode(data))
      [] tobj.type = "NULL" -> None
      [] OTHER -> Utf8Decode(data)

----------------------------------------------------------------------------
(* The client handle after construction (Concourse.__init__)              *)

AccessToken(n) == [t |-> "AccessToken", id |-> n]
TransactionToken(n) == [t |-> "TransactionToken", id |-> n]
\* the access tokens login may return
AccessTokens == {AccessToken(1)}
NoOp == [name |-> "__init__", in |-> <<>>]
\* nothing was returned: the operation raised, or none has run
NoResult == [t |-> "no result"]
\* the answer of the remote call, handed back to the caller
Answer == [t |-> "answer"]

ClientInit ==
    /\ transaction = None
    /\ creds \in AccessTokens
    /\ loginCreds = creds
    /\ issued = 0
    /\ op = NoOp
    /\ calls = <<>>
    /\ outcome = "returned"
    /\ result = NoResult
    /\ staged = None
    /\ unsent = {}

----------------------------------------------------------------------------
(* concourse/utils.py: keyword arguments                                   *)

NoKwargs == [x \in {} |-> None]
\* the one-entry kwargs {name: v}
Kw(name, v) == [x \in {name} |-> v]
\* a required parameter the call leaves out (one with a default is its default)
Omitted == [t |-> "omitted"]
\* kwargs.get(name)
KwGet(kwargs, name) == IF name \in DOMAIN kwargs THEN kwargs[name] ELSE None

\* kwarg_aliases.get(key, lambda x: None)(kwargs0)
kwarg_aliases(key, x) ==
    CASE key = "criteria" -> Or(Or(KwGet(x, "ccl"), KwGet(x, "where")), KwGet(x, "query"))
      [] key = "timestamp" -> Or(KwGet(x, "time"), KwGet(x, "ts"))
      [] key = "username" -> Or(KwGet(x, "user"), KwGet(x, "uname"))
      [] key = "password" -> Or(KwGet(x, "pass"), KwGet(x, "pword"))
      [] key = "prefs" ->
            Or(Or(Or(KwGet(x, "file"), KwGet(x, "filename")), KwGet(x, "config")),
               KwGet(x, "path"))
      [] key = "expected" ->
            Or(Or(KwGet(x, "value"), KwGet(x, "current")), KwGet(x, "old"))
      [] key = "replacement" ->
            Or(Or(KwGet(x, "new"), KwGet(x, "other")), KwGet(x, "value2"))
      [] key = "json" -> KwGet(x, "data")
      [] key = "record" -> KwGet(x, "id")
      [] OTHER -> None

find_in_kwargs_by_alias(key, kwargs0) ==
    Or(KwGet(kwargs0, key), kwarg_aliases(key, kwargs0))

----------------------------------------------------------------------------
(* What one operation does: the remote calls it invokes, in order, up to   *)
(* the exception it raises (if any).  A step is a remote call of the       *)
(* thrift client (self.client.<name>(args, creds, transaction,             *)
(* environment)) or a raise.                                               *)

CallStep(name, args) == <<[k |-> "call", name |-> name, args |-> args]>>
RaiseStep(kind) == <<[k |-> "raise", name |-> kind, args |-> <<>>]>>

\* require_kwarg(arg): raises ValueError
require_kwarg(arg) == RaiseStep("ValueError")

\* add(key, value, records=None, **kwargs)
add(key, value0, records0, kwargs) ==
    LET val == python_to_thrift(value0)
        records == Or(records0, KwGet(kwargs, "record"))
    IN  IF IsError(val) THEN RaiseStep(val.kind)
        ELSE IF records = None THEN CallStep("addKeyValue", <<key, val>>)
        ELSE IF IsList(records) THEN CallStep("addKeyValueRecords", <<key, val, records>>)
        ELSE IF IsInt(records) THEN CallStep("addKeyValueRecord", <<key, val, records>>)
        ELSE require_kwarg("key and value")

\* remove(key, value, records=None, **kwargs)
remove(key, value0, records0, kwargs) ==
    LET val == python_to_thrift(value0)
        records == Or(records0, KwGet(kwargs, "record"))
    IN  IF IsError(val) THEN RaiseStep(val.kind)
        ELSE IF IsList(records)
             THEN CallStep("removeKeyValueRecords", <<key, val, records>>)
        ELSE IF IsInt(records)
             THEN CallStep("removeKeyValueRecord", <<key, val, records>>)
        ELSE require_kwarg("record or records")

\* set(key, value, records=None, **kwargs)
set(key, value0, records0, kwargs) ==
    LET records == Or(records0, KwGet(kwargs, "record"))
        val == python_to_thrift(value0)
    IN  IF IsError(val) THEN RaiseStep(val.kind)
        ELSE IF ~Truthy(records) THEN CallStep("setKeyValue", <<key, val>>)
        ELSE IF IsList(records) THEN CallStep("setKeyValueRecords", <<key, val, records>>)
        ELSE IF IsInt(records) THEN CallStep("setKeyValueRecord", <<key, val, records>>)
        ELSE require_kwarg("record or records")

\* clear without its final require_kwarg: the last branch calls clearRecord
clear_NoRequire(keys0, records0, kwargs) ==
    LET keys == Or(keys0, KwGet(kwargs, "key"))
        records == Or(records0, KwGet(kwargs, "record"))
    IN  IF IsList(keys) /\ IsList(records)
        THEN CallStep("clearKeysRecords", <<keys, records>>)
        ELSE IF IsList(records) /\ ~Truthy(keys)
             THEN CallStep("clearRecords", <<records>>)
        ELSE IF IsList(keys) /\ Truthy(records)
             THEN CallStep("clearKeysRecord", <<keys, records>>)
        ELSE IF IsList(records) /\ Truthy(keys)
             THEN CallStep("clearKeyRecords", <<keys, records>>)
        ELSE IF Truthy(keys) /\ Truthy(records)
             THEN CallStep("clearKeyRecord", <<keys, records>>)
        ELSE CallStep("clearRecord", <<records>>)

\* clear(keys=None, records=None, **kwargs)
clear(keys0, records0, kwargs) ==
    LET keys == Or(keys0, KwGet(kwargs, "key"))
        records == Or(records0, KwGet(kwargs, "record"))
    IN  IF IsList(keys) /\ IsList(records)
        THEN CallStep("clearKeysRecords", <<keys, records>>)
        ELSE IF IsList(records) /\ ~Truthy(keys)
             THEN CallStep("clearRecords", <<records>>)
        ELSE IF IsList(keys) /\ Truthy(records)
             THEN CallStep("clearKeysRecord", <<keys, records>>)
        ELSE IF IsList(records) /\ Truthy(keys)
             THEN CallStep("clearKeyRecords", <<keys, records>>)
        ELSE IF Truthy(keys) /\ Truthy(records)
             THEN CallStep("clearKeyRecord", <<keys, records>>)
        ELSE IF Truthy(records) THEN CallStep("clearRecord", <<records>>)
        ELSE require_kwarg("record or records")

\* describe(records=None, timestamp=None, **kwargs)
describe(records0, timestamp0, kwargs) ==
    LET timestamp == Or(timestamp0, find_in_kwargs_by_alias("timestamp", kwargs))
        timestr == IsStr(timestamp)
        records == Or(records0, KwGet(kwargs, "record"))
    IN  IF IsList(records) /\ Truthy(timestamp) /\ ~timestr
        THEN CallStep("describeRecordsTime", <<records, timestamp>>)
        ELSE IF IsList(records) /\ Truthy(timestamp) /\ timestr
             THEN CallStep("describeRecordsTimestr", <<records, timestamp>>)
        ELSE IF IsList(records) THEN CallStep("describeRecords", <<records>>)
        ELSE IF Truthy(timestamp) /\ ~timestr
             THEN CallStep("describeRecordTime", <<records, timestamp>>)
        ELSE IF Truthy(timestamp) /\ timestr
             THEN CallStep("describeRecordTimestr", <<records, timestamp>>)
        ELSE CallStep("describeRecord", <<records>>)

\* ping(records, **kwargs)
ping(records0, kwargs) ==
    LET records == Or(records0, KwGet(kwargs, "record"))
    IN  IF records0 = Omitted THEN RaiseStep("TypeError")
        ELSE IF IsList(records) THEN CallStep("pingRecords", <<records>>)
        ELSE CallStep("pingRecord", <<records>>)

\* browse(keys=None, timestamp=None, **kwargs)
browse(keys0, timestamp0, kwargs) ==
    LET keys == Or(keys0, KwGet(kwargs, "key"))
        timestamp == Or(timestamp0, find_in_kwargs_by_alias("timestamp", kwargs))
        timestamp_is_string == IsStr(timestamp)
    IN  IF IsList(keys) /\ Truthy(timestamp) /\ ~timestamp_is_string
        THEN CallStep("browseKeysTime", <<keys, timestamp>>)
        ELSE IF IsList(keys) /\ Truthy(timestamp) /\ timestamp_is_string
             THEN CallStep("browseKeysTimestr", <<keys, timestamp>>)
        ELSE IF IsList(keys) THEN CallStep("browseKeys", <<keys>>)
        ELSE IF Truthy(timestamp) /\ ~timestamp_is_string
             THEN CallStep("browseKeyTime", <<keys, timestamp>>)
        ELSE IF Truthy(timestamp) /\ timestamp_is_string
             THEN CallStep("browseKeyTimestr", <<keys, timestamp>>)
        ELSE IF Truthy(keys) THEN CallStep("browseKey", <<keys>>)
        ELSE require_kwarg("key or keys")

\* an if / elif chain whose every branch is one remote call: the first row
\* <<condition, call name, arguments>> whose condition holds is taken, and
\* otherwise the final else
First(rows, else) ==
    IF \E i \in 1..Len(rows) : rows[i][1]
    THEN LET i == CHOOSE i \in 1..Len(rows) :
                      rows[i][1] /\ \A j \in 1..(i - 1) : ~rows[j][1]
         IN  CallStep(rows[i][2], rows[i][3])
    ELSE else

\* get(keys=None, criteria=None, records=None, timestamp=None, **kwargs)
get(keys0, criteria0, records0, timestamp0, kwargs) ==
    LET criteria1 == Or(criteria0, find_in_kwargs_by_alias("criteria", kwargs))
        keys == Or(keys0, KwGet(kwargs, "key"))
        records1 == Or(records0, KwGet(kwargs, "record"))
        timestamp == Or(timestamp0, find_in_kwargs_by_alias("timestamp", kwargs))
        timestr == IsStr(timestamp)
        \* the second positional parameter is the record(s)
        swap == (IsInt(criteria1) \/ IsList(criteria1)) /\ ~Truthy(records1)
        records == IF swap THEN criteria1 ELSE records1
        criteria == IF swap THEN None ELSE criteria1
    IN  First(<<
          <<IsList(records) /\ ~Truthy(keys) /\ ~Truthy(timestamp), "getRecords", <<records>>>>,
          <<IsList(records) /\ Truthy(timestamp) /\ ~timestr /\ ~Truthy(keys), "getRecordsTime", <<records, timestamp>>>>,
          <<IsList(records) /\ Truthy(timestamp) /\ timestr /\ ~Truthy(keys), "getRecordsTimestr", <<records, timestamp>>>>,
          <<IsList(records) /\ IsList(keys) /\ ~Truthy(timestamp), "getKeysRecords", <<keys, records>>>>,
          <<IsList(records) /\ IsList(keys) /\ Truthy(timestamp) /\ ~timestr, "getKeysRecordsTime", <<keys, records, timestamp>>>>,
          <<IsList(records) /\ IsList(keys) /\ Truthy(timestamp) /\ timestr, "getKeysRecordsTimestr", <<keys, records, timestamp>>>>,
          <<IsList(keys) /\ Truthy(criteria) /\ ~Truthy(timestamp), "getKeysCcl", <<keys, criteria>>>>,
          <<IsList(keys) /\ Truthy(criteria) /\ Truthy(timestamp) /\ ~timestr, "getKeysCclTime", <<keys, criteria, timestamp>>>>,
          <<IsList(keys) /\ Truthy(criteria) /\ Truthy(timestamp) /\ timestr, "getKeysCclTimestr", <<keys, criteria, timestamp>>>>,
          <<IsList(keys) /\ Truthy(records) /\ ~Truthy(timestamp), "getKeysRecord", <<keys, records>>>>,
          <<IsList(keys) /\ Truthy(records) /\ Truthy(timestamp) /\ ~timestr, "getKeysRecordTime", <<keys, records, timestamp>>>>,
          <<IsList(keys) /\ Truthy(records) /\ Truthy(timestamp) /\ timestr, "getKeysRecordTimestr", <<keys, records, timestamp>>>>,
          <<Truthy(criteria) /\ ~Truthy(keys) /\ ~Truthy(timestamp), "getCcl", <<criteria>>>>,
          <<Truthy(criteria) /\ Truthy(timestamp) /\ ~timestr /\ ~Truthy(keys), "getCclTime", <<criteria, timestamp>>>>,
          <<Truthy(criteria) /\ Truthy(timestamp) /\ timestr /\ ~Truthy(keys), "getCclTimestr", <<criteria, timestamp>>>>,
          <<Truthy(records) /\ ~Truthy(keys) /\ ~Truthy(timestamp), "getRecord", <<records>>>>,
          <<Truthy(records) /\ Truthy(timestamp) /\ ~timestr /\ ~Truthy(keys), "getRecordsTime", <<records, timestamp>>>>,
          <<Truthy(records) /\ Truthy(timestamp) /\ timestr /\ ~Truthy(keys), "getRecordsTimestr", <<records, timestamp>>>>,
          <<Truthy(keys) /\ Truthy(criteria) /\ ~Truthy(timestamp), "getKeyCcl", <<keys, criteria>>>>,
          <<Truthy(keys) /\ Truthy(criteria) /\ Truthy(timestamp) /\ ~timestr, "getKeyCclTime", <<keys, criteria, timestamp>>>>,
          <<Truthy(keys) /\ Truthy(criteria) /\ Truthy(timestamp) /\ timestr, "getKeyCclTimestr", <<keys, criteria, timestamp>>>>,
          <<Truthy(keys) /\ IsList(records) /\ ~Truthy(timestamp), "getKeyRecords", <<keys, records>>>>,
          <<Truthy(keys) /\ Truthy(records) /\ ~Truthy(timestamp), "getKeyRecord", <<keys, records>>>>,
          <<Truthy(keys) /\ IsList(records) /\ Truthy(timestamp) /\ ~timestr, "getKeyRecordsTime", <<keys, records, timestamp>>>>,
          <<Truthy(keys) /\ IsList(records) /\ Truthy(timestamp) /\ timestr, "getKeyRecordsTimestr", <<keys, records, timestamp>>>>,
          <<Truthy(keys) /\ Truthy(records) /\ Truthy(timestamp) /\ ~timestr, "getKeyRecordTime", <<keys, records, timestamp>>>>,
          <<Truthy(keys) /\ Truthy(records) /\ Truthy(timestamp) /\ timestr, "getKeyRecordTimestr", <<keys, records, timestamp>>>>
        >>, require_kwarg("criteria or (key and record)"))

\* select(keys=None, criteria=None, records=None, timestamp=None, **kwargs)
select(keys0, criteria0, records0, timestamp0, kwargs) ==
    LET criteria1 == Or(criteria0, find_in_kwargs_by_alias("criteria", kwargs))
        keys == Or(keys0, KwGet(kwargs, "key"))
        records1 == Or(records0, KwGet(kwargs, "record"))
        timestamp == Or(timestamp0, find_in_kwargs_by_alias("timestamp", kwargs))
        timestr == IsStr(timestamp)
        \* the second positional parameter is the record(s)
        swap == (IsInt(criteria1) \/ IsList(criteria1)) /\ ~Truthy(records1)
        records == IF swap THEN criteria1 ELSE records1
        criteria == IF swap THEN None ELSE criteria1
    IN  First(<<
          <<IsList(records) /\ ~Truthy(keys) /\ ~Truthy(timestamp), "selectRecords", <<records>>>>,
          <<IsList(records) /\ Truthy(timestamp) /\ ~timestr /\ ~Truthy(keys), "selectRecordsTime", <<records, timestamp>>>>,
          <<IsList(records) /\ Truthy(timestamp) /\ timestr /\ ~Truthy(keys), "selectRecordsTimestr", <<records, timestamp>>>>,
          <<IsList(records) /\ IsList(keys) /\ ~Truthy(timestamp), "selectKeysRecords", <<keys, records>>>>,
          <<IsList(records) /\ IsList(keys) /\ Truthy(timestamp) /\ ~timestr, "selectKeysRecordsTime", <<keys, records, timestamp>>>>,
          <<IsList(records) /\ IsList(keys) /\ Truthy(timestamp) /\ timestr, "selectKeysRecordsTimestr", <<keys, records, timestamp>>>>,
          <<IsList(keys) /\ Truthy(criteria) /\ ~Truthy(timestamp), "selectKeysCcl", <<keys, criteria>>>>,
          <<IsList(keys) /\ Truthy(criteria) /\ Truthy(timestamp) /\ ~timestr, "selectKeysCclTime", <<keys, criteria, timestamp>>>>,
          <<IsList(keys) /\ Truthy(criteria) /\ Truthy(timestamp) /\ timestr, "selectKeysCclTimestr", <<keys, criteria, timestamp>>>>,
          <<IsList(keys) /\ Truthy(records) /\ ~Truthy(timestamp), "selectKeysRecord", <<keys, records>>>>,
          <<IsList(keys) /\ Truthy(records) /\ Truthy(timestamp) /\ ~timestr, "selectKeysRecordTime", <<keys, records, timestamp>>>>,
          <<IsList(keys) /\ Truthy(records) /\ Truthy(timestamp) /\ timestr, "selectKeysRecordTimestr", <<keys, records, timestamp>>>>,
          <<Truthy(criteria) /\ ~Truthy(keys) /\ ~Truthy(timestamp), "selectCcl", <<criteria>>>>,
          <<Truthy(criteria) /\ Truthy(timestamp) /\ ~timestr /\ ~Truthy(keys), "selectCclTime", <<criteria, timestamp>>>>,
          <<Truthy(criteria) /\ Truthy(timestamp) /\ timestr /\ ~Truthy(keys), "selectCclTimestr", <<criteria, timestamp>>>>,
          <<Truthy(records) /\ ~Truthy(keys) /\ ~Truthy(timestamp), "selectRecord", <<records>>>>,
          <<Truthy(records) /\ ~IsList(records) /\ Truthy(timestamp) /\ ~timestr /\ ~Truthy(keys), "selectRecordTime", <<records, timestamp>>>>,
          <<Truthy(records) /\ Truthy(timestamp) /\ ~timestr /\ ~Truthy(keys), "selectRecordsTime", <<records, timestamp>>>>,
          <<Truthy(records) /\ ~IsList(records) /\ Truthy(timestamp) /\ timestr /\ ~Truthy(keys), "selectRecordTimestr", <<records, timestamp>>>>,
          <<IsList(records) /\ Truthy(timestamp) /\ timestr /\ ~Truthy(keys), "selectRecordsTimestr", <<records, timestamp>>>>,
          <<Truthy(keys) /\ Truthy(criteria) /\ ~Truthy(timestamp), "selectKeyCcl", <<keys, criteria>>>>,
          <<Truthy(keys) /\ Truthy(criteria) /\ Truthy(timestamp) /\ ~timestr, "selectKeyCclTime", <<keys, criteria, timestamp>>>>,
          <<Truthy(keys) /\ Truthy(criteria) /\ Truthy(timestamp) /\ timestr, "selectKeyCclTimestr", <<keys, criteria, timestamp>>>>,
          <<Truthy(keys) /\ IsList(records) /\ ~Truthy(timestamp), "selectKeyRecords", <<keys, records>>>>,
          <<Truthy(keys) /\ Truthy(records) /\ ~Truthy(timestamp), "selectKeyRecord", <<keys, records>>>>,
          <<Truthy(keys) /\ IsList(records) /\ Truthy(timestamp) /\ ~timestr, "selectKeyRecordsTime", <<keys, records, timestamp>>>>,
          <<Truthy(keys) /\ IsList(records) /\ Truthy(timestamp) /\ timestr, "selectKeyRecordsTimestr", <<keys, records, timestamp>>>>,
          <<Truthy(keys) /\ Truthy(records) /\ Truthy(timestamp) /\ ~timestr, "selectKeyRecordTime", <<keys, records, timestamp>>>>,
          <<Truthy(keys) /\ Truthy(records) /\ Truthy(timestamp) /\ timestr, "selectKeyRecordTimestr", <<keys, records, timestamp>>>>,
          <<Truthy(records) /\ ~IsList(records) /\ ~Truthy(timestamp), "selectRecord", <<records>>>>,
          <<Truthy(records) /\ ~IsList(records) /\ Truthy(timestamp) /\ ~timestr, "selectRecordTime", <<records, timestamp>>>>,
          <<Truthy(records) /\ ~IsList(records) /\ Truthy(timestamp) /\ timestr, "selectRecordTimestr", <<records, timestamp>>>>,
          <<Truthy(records) /\ ~Truthy(timestamp), "selectRecords", <<records>>>>,
          <<Truthy(records) /\ Truthy(timestamp) /\ ~timestr, "selectRecordsTime", <<records, timestamp>>>>,
          <<Truthy(records) /\ Truthy(timestamp) /\ timestr, "selectRecordsTimestr", <<records, timestamp>>>>
        >>, require_kwarg("criteria or record"))

\* audit(key=None, record=None, start=None, end=None, **kwargs)
audit(key0, record0, start0, end, kwargs) ==
    LET start == Or(start0, find_in_kwargs_by_alias("timestamp", kwargs))
        startstr == IsStr(start)
        endstr == IsStr(end)
        record == IF IsInt(key0) THEN key0 ELSE record0
        key == IF IsInt(key0) THEN None ELSE key0
    IN  First(<<
          <<Truthy(key) /\ Truthy(record) /\ Truthy(start) /\ ~startstr /\ Truthy(end) /\ ~endstr, "auditKeyRecordStartEnd", <<key, record, start, end>>>>,
          <<Truthy(key) /\ Truthy(record) /\ Truthy(start) /\ startstr /\ Truthy(end) /\ endstr, "auditKeyRecordStartstrEndstr", <<key, record, start, end>>>>,
          <<Truthy(key) /\ Truthy(record) /\ Truthy(start) /\ ~startstr, "auditKeyRecordStart", <<key, record, start>>>>,
          <<Truthy(key) /\ Truthy(record) /\ Truthy(start) /\ startstr, "auditKeyRecordStartstr", <<key, record, start>>>>,
          <<Truthy(key) /\ Truthy(record), "auditKeyRecord", <<key, record>>>>,
          <<Truthy(record) /\ Truthy(start) /\ ~startstr /\ Truthy(end) /\ ~endstr, "auditRecordStartEnd", <<record, start, end>>>>,
          <<Truthy(record) /\ Truthy(start) /\ startstr /\ Truthy(end) /\ endstr, "auditRecordStartstrEndstr", <<record, start, end>>>>,
          <<Truthy(record) /\ Truthy(start) /\ ~startstr, "auditRecordStart", <<record, start>>>>,
          <<Truthy(record) /\ Truthy(start) /\ startstr, "auditRecordStartstr", <<record, start>>>>,
          <<Truthy(record), "auditRecord", <<record>>>>
        >>, require_kwarg("record"))

\* chronologize(key, record, start=None, end=None, **kwargs)
chronologize(key, record, start0, end, kwargs) ==
    LET start == Or(start0, find_in_kwargs_by_alias("timestamp", kwargs))
        startstr == IsStr(start)
        endstr == IsStr(end)
    IN  First(<<
          <<Truthy(start) /\ ~startstr /\ Truthy(end) /\ ~endstr, "chronologizeKeyRecordStartEnd", <<key, record, start, end>>>>,
          <<Truthy(start) /\ startstr /\ Truthy(end) /\ endstr, "chronologizeKeyRecordStartstrEndstr", <<key, record, start, end>>>>,
          <<Truthy(start) /\ ~startstr, "chronologizeKeyRecordStart", <<key, record, start>>>>,
          <<Truthy(start) /\ startstr, "chronologizeKeyRecordStartstr", <<key, record, start>>>>
        >>, CallStep("chronologizeKeyRecord", <<key, record>>))

\* diff(key=None, record=None, start=None, end=None, **kwargs)
diff(key, record, start0, end, kwargs) ==
    LET start == Or(start0, find_in_kwargs_by_alias("timestamp", kwargs))
        startstr == IsStr(start)
        endstr == IsStr(end)
    IN  First(<<
          <<Truthy(key) /\ Truthy(record) /\ Truthy(start) /\ ~startstr /\ Truthy(end) /\ ~endstr, "diffKeyRecordStartEnd", <<key, record, start, end>>>>,
          <<Truthy(key) /\ Truthy(record) /\ Truthy(start) /\ startstr /\ Truthy(end) /\ endstr, "diffKeyRecordStartstrEndstr", <<key, record, start, end>>>>,
          <<Truthy(key) /\ Truthy(record) /\ Truthy(start) /\ ~startstr, "diffKeyRecordStart", <<key, record, start>>>>,
          <<Truthy(key) /\ Truthy(record) /\ Truthy(start) /\ startstr, "diffKeyRecordStartstr", <<key, record, start>>>>,
          <<Truthy(key) /\ Truthy(start) /\ ~startstr /\ Truthy(end) /\ ~endstr, "diffKeyStartEnd", <<key, start, end>>>>,
          <<Truthy(key) /\ Truthy(start) /\ startstr /\ Truthy(end) /\ endstr, "diffKeyStartstrEndstr", <<key, start, end>>>>,
          <<Truthy(key) /\ Truthy(start) /\ ~startstr, "diffKeyStart", <<key, start>>>>,
          <<Truthy(key) /\ Truthy(start) /\ startstr, "diffKeyStartstr", <<key, start>>>>,
          <<Truthy(record) /\ Truthy(start) /\ ~startstr /\ Truthy(end) /\ ~endstr, "diffRecordStartEnd", <<record, start, end>>>>,
          <<Truthy(record) /\ Truthy(start) /\ startstr /\ Truthy(end) /\ endstr, "diffRecordStartstrEndstr", <<record, start, end>>>>,
          <<Truthy(record) /\ Truthy(start) /\ ~startstr, "diffRecordStart", <<record, start>>>>,
          <<Truthy(record) /\ Truthy(start) /\ startstr, "diffRecordStartstr", <<record, start>>>>
        >>, require_kwarg("start and (record or key)"))

\* revert(keys=None, records=None, timestamp=None, **kwargs)
revert(keys0, records0, timestamp0, kwargs) ==
    LET keys == Or(keys0, KwGet(kwargs, "key"))
        records == Or(records0, KwGet(kwargs, "record"))
        timestamp == Or(timestamp0, find_in_kwargs_by_alias("timestamp", kwargs))
        timestr == IsStr(timestamp)
    IN  First(<<
          <<IsList(keys) /\ IsList(records) /\ Truthy(timestamp) /\ ~timestr, "revertKeysRecordsTime", <<keys, records, timestamp>>>>,
          <<IsList(keys) /\ IsList(records) /\ Truthy(timestamp) /\ timestr, "revertKeysRecordsTimestr", <<keys, records, timestamp>>>>,
          <<IsList(keys) /\ Truthy(records) /\ Truthy(timestamp) /\ ~timestr, "revertKeysRecordTime", <<keys, records, timestamp>>>>,
          <<IsList(keys) /\ Truthy(records) /\ Truthy(timestamp) /\ timestr, "revertKeysRecordTimestr", <<keys, records, timestamp>>>>,
          <<IsList(records) /\ Truthy(keys) /\ Truthy(timestamp) /\ ~timestr, "revertKeyRecordsTime", <<keys, records, timestamp>>>>,
          <<IsList(records) /\ Truthy(keys) /\ Truthy(timestamp) /\ timestr, "revertKeyRecordsTimestr", <<keys, records, timestamp>>>>,
          <<Truthy(keys) /\ Truthy(records) /\ Truthy(timestamp) /\ ~timestr, "revertKeyRecordTime", <<keys, records, timestamp>>>>,
          <<Truthy(keys) /\ Truthy(records) /\ Truthy(timestamp) /\ timestr, "revertKeyRecordTimestr", <<keys, records, timestamp>>>>
        >>, require_kwarg("keys, record and timestamp"))

----------------------------------------------------------------------------
(* Python dict and list, as the deep conversions of utils.py use them      *)

\* a dict (or OrderedDict): its items in iteration order, keys distinct
PyDict(items) == [t |-> "dict", v |-> items]
IsDict(x) == x.t = "dict"
Item(k, v) == [k |-> k, v |-> v]
\* hash(k) is defined: lists and dicts have none, and neither have Tag and
\* Link, which define __eq__ without __hash__
Hashable(k) == k.t \notin {"list", "dict", "Tag", "Link"}
\* position of key k among items, 0 when it is not there
KeyIndex(items, k) ==
    IF \E i \in 1..Len(items) : PyEq(items[i].k, k)
    THEN CHOOSE i \in 1..Len(items) : PyEq(items[i].k, k)
    ELSE 0
\* obj.pop(k)
DictPop(items, k) ==
    LET at == KeyIndex(items, k)
    IN  IF at = 0 THEN items
        ELSE SubSeq(items, 1, at - 1) \o SubSeq(items, at + 1, Len(items))
\* obj[k] = v: an equal key keeps its place (and its key object), a new key
\* goes last
DictSet(items, k, v) ==
    LET at == KeyIndex(items, k)
    IN  IF at = 0 THEN Append(items, Item(k, v))
        ELSE [items EXCEPT ![at] = Item(items[at].k, v)]
\* [f(n) for n in obj] when f raised on some element: the first error
FirstError(out) ==
    out[CHOOSE i \in 1..Len(out) : IsError(out[i]) /\ \A j \in 1..(i - 1) : ~IsError(out[j])]
HasError(out) == \E i \in 1..Len(out) : IsError(out[i])

\* a < b on the keys the driver sorts: integers, or strings
KeyLess(a, b) ==
    IF a.t = "int" THEN IntLess(a, b)
    ELSE \/ (Len(a.v) < Len(b.v) /\ SubSeq(b.v, 1, Len(a.v)) = a.v)
         \/ LexLessCommon(a.v, b.v)
RECURSIVE InsertSorted(_, _)
InsertSorted(item, s) ==
    IF s = <<>> THEN <<item>>
    ELSE IF KeyLess(item.k, Head(s).k) THEN <<item>> \o s
    ELSE <<Head(s)>> \o InsertSorted(item, Tail(s))
RECURSIVE SortItems(_)
SortItems(items) ==
    IF items = <<>> THEN <<>> ELSE InsertSorted(Head(items), SortItems(Tail(items)))

\* sorted that leaves the items in the order of the wire
sorted_WireOrder(items) == PyList(items)

\* sorted(data.items()): ascending by key (keys of a dict are distinct, so the
\* values are never compared); keys of mixed types do not compare
sorted(items) ==
    IF Len(items) >= 2 /\ ~(\/ \A i \in 1..Len(items) : items[i].k.t = "int"
                            \/ \A i \in 1..Len(items) : items[i].k.t = "str")
    THEN Error("TypeError")
    ELSE PyList(SortItems(items))
\* OrderedDict(pairs)
OrderedDict(pairs) == IF IsError(pairs) THEN pairs ELSE PyDict(pairs.v)

RECURSIVE pythonify(_)
RECURSIVE PythonifyItems(_, _)
\* the loop of pythonify over list(obj.items()): items is the dict so far,
\* rest what is left of the snapshot
PythonifyItems(items, rest) ==
    IF rest = <<>> THEN PyDict(items)
    ELSE LET k0 == Head(rest).k
             v0 == Head(rest).v
             k1 == IF k0.t = "bytes" THEN Utf8Decode(k0.v) ELSE k0
             k == IF IsError(k1) THEN k1
                  ELSE IF IsTObject(k1) THEN thrift_to_python(k1) ELSE pythonify(k1)
             v == IF IsTObject(v0) THEN thrift_to_python(v0) ELSE pythonify(v0)
         IN  IF IsError(k) THEN k
             ELSE IF IsError(v) THEN v
             ELSE IF ~Hashable(k) THEN Error("TypeError")
             ELSE PythonifyItems(DictSet(DictPop(items, k0), k, v), Tail(rest))

\* pythonify(obj)
pythonify(obj) ==
    IF IsDict(obj) THEN PythonifyItems(obj.v, obj.v)
    ELSE IF IsList(obj)
         THEN LET out == [i \in 1..Len(obj.v) |-> pythonify(obj.v[i])]
              IN  IF HasError(out) THEN FirstError(out) ELSE PyList(out)
    ELSE IF IsTObject(obj) THEN thrift_to_python(obj)
    ELSE IF obj.t = "bytes" THEN Utf8Decode(obj.v)
    ELSE obj

\* the end of audit: data = pythonify(data);
\* data = OrderedDict(sorted(data.items())); return data
audit_return(data) ==
    LET d == pythonify(data)
    IN  IF IsError(d) THEN d ELSE OrderedDict(sorted(d.v))

\* the end of chronologize: data = OrderedDict(sorted(data.items()));
\* return pythonify(data)
chronologize_return(data) ==
    LET d == OrderedDict(sorted(data.v))
    IN  IF IsError(d) THEN d ELSE pythonify(d)

RECURSIVE thriftify(_)
\* k or v of thriftify's dict loop: python_to_thrift(x) unless what the test
\* looks at is a dict or a list
ThriftifyUnless(test, x) ==
    IF ~IsDict(test) /\ ~IsList(test) THEN python_to_thrift(x) ELSE thriftify(x)
\* line 92: the test of the value looks at k, by then the converted key
ThriftifyValue(k, v) == ThriftifyUnless(k, v)

RECURSIVE ThriftifyItems(_, _)
\* the loop of thriftify over list(obj.items()): items is the dict so far,
\* rest what is left of the snapshot
ThriftifyItems(items, rest) ==
    IF rest = <<>> THEN PyDict(items)
    ELSE LET k0 == Head(rest).k
             k == ThriftifyUnless(k0, k0)
             v == IF IsError(k) THEN k ELSE ThriftifyValue(k, Head(rest).v)
         IN  IF IsError(k) THEN k
             ELSE IF IsError(v) THEN v
             ELSE IF ~Hashable(k) THEN Error("TypeError")
             ELSE ThriftifyItems(DictSet(DictPop(items, k0), k, v), Tail(rest))

\* thriftify(obj): an element that cannot be encoded raises
thriftify(obj) ==
    IF IsDict(obj) THEN ThriftifyItems(obj.v, obj.v)
    ELSE IF IsList(obj)
    THEN LET out == [i \in 1..Len(obj.v) |-> thriftify(obj.v[i])]
         IN  IF \E i \in 1..Len(out) : IsError(out[i])
             THEN out[CHOOSE i \in 1..Len(out) :
                          IsError(out[i]) /\ \A j \in 1..(i - 1) : ~IsError(out[j])]
             ELSE PyList(out)
    ELSE IF ~IsTObject(obj) THEN python_to_thrift(obj)
    ELSE obj

\* find(criteria=None, **kwargs)
find(criteria0, kwargs) ==
    LET criteria == Or(criteria0, find_in_kwargs_by_alias("criteria", kwargs))
        key == KwGet(kwargs, "key")
        operator == KwGet(kwargs, "operator")
        operatorstr == IsStr(operator)
        values0 == Or(KwGet(kwargs, "value"), KwGet(kwargs, "values"))
        values1 == IF ~IsList(values0) THEN PyList(<<values0>>) ELSE values0
        values == thriftify(values1)
        timestamp == find_in_kwargs_by_alias("timestamp", kwargs)
        timestr == IsStr(timestamp)
    IN  IF IsError(values) THEN RaiseStep(values.kind)
        ELSE First(<<
          <<Truthy(criteria), "findCcl", <<criteria>>>>,
          <<Truthy(key) /\ Truthy(operator) /\ ~operatorstr /\ Truthy(values) /\ ~Truthy(timestamp), "findKeyOperatorValues", <<key, operator, values>>>>,
          <<Truthy(key) /\ Truthy(operator) /\ operatorstr /\ Truthy(values) /\ ~Truthy(timestamp), "findKeyOperatorstrValues", <<key, operator, values>>>>,
          <<Truthy(key) /\ Truthy(operator) /\ ~operatorstr /\ Truthy(values) /\ Truthy(timestamp) /\ ~timestr, "findKeyOperatorValuesTime", <<key, operator, values, timestamp>>>>,
          <<Truthy(key) /\ Truthy(operator) /\ operatorstr /\ Truthy(values) /\ Truthy(timestamp) /\ ~timestr, "findKeyOperatorstrValuesTime", <<key, operator, values, timestamp>>>>,
          <<Truthy(key) /\ Truthy(operator) /\ ~operatorstr /\ Truthy(values) /\ Truthy(timestamp) /\ timestr, "findKeyOperatorValuesTimestr", <<key, operator, values, timestamp>>>>,
          <<Truthy(key) /\ Truthy(operator) /\ operatorstr /\ Truthy(values) /\ Truthy(timestamp) /\ timestr, "findKeyOperatorstrValuesTimestr", <<key, operator, values, timestamp>>>>
        >>, require_kwarg("criteria or all of (key, operator and value/s)"))

\* insert(data, records=None, **kwargs); data is a JSON string here
insert(data0, records0, kwargs) ==
    LET data == Or(data0, KwGet(kwargs, "json"))
        records == Or(records0, KwGet(kwargs, "record"))
    IN  IF IsList(records) THEN CallStep("insertJsonRecords", <<data, records>>)
        ELSE IF Truthy(records) THEN CallStep("insertJsonRecord", <<data, records>>)
        ELSE CallStep("insertJson", <<data>>)

\* list(records) of jsonify
ListOf(x) ==
    IF IsStr(x) THEN PyList([i \in 1..Len(x.v) |-> PyStr(<<x.v[i]>>)])
    ELSE Error("TypeError")

\* jsonify(records=None, include_id=False, timestamp=None, **kwargs)
jsonify(records0, include_id0, timestamp0, kwargs) ==
    LET records1 == Or(records0, KwGet(kwargs, "record"))
        records == IF ~IsList(records1) THEN ListOf(records1) ELSE records1
        timestamp == Or(timestamp0, find_in_kwargs_by_alias("timestamp", kwargs))
        include_id == Or(include_id0,
                         IF "id" \in DOMAIN kwargs THEN kwargs["id"] ELSE PyBool(FALSE))
        timestr == IsStr(timestamp)
    IN  IF IsError(records) THEN RaiseStep(records.kind)
        ELSE IF ~Truthy(timestamp)
             THEN CallStep("jsonifyRecords", <<records, include_id>>)
        ELSE IF Truthy(timestamp) /\ ~timestr
             THEN CallStep("jsonifyRecordsTime", <<records, timestamp, include_id>>)
        ELSE IF Truthy(timestamp) /\ timestr
             THEN CallStep("jsonifyRecordsTimestr", <<records, timestamp, include_id>>)
        ELSE require_kwarg("record or records")

\* verify(key, value, record, timestamp=None, **kwargs)
verify(key, value0, record, timestamp0, kwargs) ==
    LET val == python_to_thrift(value0)
        timestamp == Or(timestamp0, find_in_kwargs_by_alias("timestamp", kwargs))
        timestr == IsStr(timestamp)
    IN  IF IsError(val) THEN RaiseStep(val.kind)
        ELSE IF ~Truthy(timestamp)
             THEN CallStep("verifyKeyValueRecord", <<key, val, record>>)
        ELSE IF ~timestr
             THEN CallStep("verifyKeyValueRecordTime", <<key, val, record, timestamp>>)
        ELSE CallStep("verifyKeyValueRecordTimestr", <<key, val, record, timestamp>>)

\* find_in_kwargs_by_alias(name, **kwargs), as verify_and_swap calls it: the
\* kwargs are spread into keyword arguments, so the call is a TypeError
\* unless the caller passed exactly one keyword argument named kwargs0
SpreadLookup(name, kwargs) ==
    IF DOMAIN kwargs = {"kwargs0"}
    THEN find_in_kwargs_by_alias(name, kwargs["kwargs0"])
    ELSE Error("TypeError")

\* verify_and_swap(key=None, expected=None, record=None, replacement=None, **kwargs)
verify_and_swap(key, expected0, record, replacement0, kwargs) ==
    LET expected1 == IF Truthy(expected0) THEN expected0
                     ELSE SpreadLookup("expected", kwargs)
        replacement1 == IF Truthy(replacement0) THEN replacement0
                        ELSE SpreadLookup("replacement", kwargs)
    IN  IF IsError(expected1) THEN RaiseStep(expected1.kind)
        ELSE IF IsError(replacement1) THEN RaiseStep(replacement1.kind)
        ELSE LET expected == python_to_thrift(expected1)
                 replacement == python_to_thrift(replacement1)
             IN  IF IsError(expected) THEN RaiseStep(expected.kind)
                 ELSE IF IsError(replacement) THEN RaiseStep(replacement.kind)
                 ELSE IF Truthy(key) /\ Truthy(expected) /\ Truthy(record)
                         /\ Truthy(replacement)
                      THEN CallStep("verifyAndSwap",
                                    <<key, expected, record, replacement>>)
                 ELSE require_kwarg("key, expected, record and replacement")

\* verify_or_set(key, value, record)
verify_or_set(key, value0, record) ==
    LET val == python_to_thrift(value0)
    IN  IF IsError(val) THEN RaiseStep(val.kind)
        ELSE CallStep("verifyOrSet", <<key, val, record>>)

\* search(key, query)
search(key, query) == CallStep("search", <<key, query>>)

\* reconcile(key, record, values, **kwargs)
reconcile(key0, record0, values0, kwargs) ==
    LET key == Or(key0, KwGet(kwargs, "key"))
        record == Or(record0, KwGet(kwargs, "record"))
        values1 == Or(Or(Or(values0, KwGet(kwargs, "values")), KwGet(kwargs, "value")),
                      PyList(<<>>))
        values == thriftify(values1)
    IN  IF IsError(values) THEN RaiseStep(values.kind)
        ELSE CallStep("reconcileKeyRecordValues", <<key, record, values>>)

\* time(phrase=None)
time(phrase) ==
    IF Truthy(phrase) THEN CallStep("timePhrase", <<phrase>>)
    ELSE CallStep("time", <<>>)

\* inventory()
inventory == CallStep("inventory", <<>>)

\* find_or_add(key, value)
find_or_add(key, value0) ==
    LET val == python_to_thrift(value0)
    IN  IF IsError(val) THEN RaiseStep(val.kind)
        ELSE CallStep("findOrAddKeyValue", <<key, val>>)

\* find_or_insert(criteria=None, data=None, **kwargs); data is a JSON string
find_or_insert(criteria0, data0, kwargs) ==
    LET data == Or(data0, KwGet(kwargs, "json"))
        criteria == Or(criteria0, find_in_kwargs_by_alias("criteria", kwargs))
    IN  CallStep("findOrInsertCclJson", <<criteria, data>>)

\* self.add(key, Link.to(dest), source) / self.remove(key, Link.to(dest), source)
LinkStep(which, key, dest, source, kwargs) ==
    LET l == LinkTo(dest)
    IN  IF IsError(l) THEN RaiseStep(l.kind)
        ELSE IF which = "add" THEN add(key, l, source, kwargs)
        ELSE remove(key, l, source, kwargs)

\* the loop returning from inside its first iteration
LinkLoop_FirstOnly(which, key, dests, source) ==
    IF dests = <<>> THEN <<>>
    ELSE LinkStep(which, key, Head(dests), source, NoKwargs)

RECURSIVE LinkLoop(_, _, _, _)
\* for dest in destinations: data[dest] = self.add/remove(key, Link.to(dest), source)
LinkLoop(which, key, dests, source) ==
    IF dests = <<>> THEN <<>>
    ELSE LET step == LinkStep(which, key, Head(dests), source, NoKwargs)
         IN  IF step[1].k = "raise" THEN step
             ELSE step \o LinkLoop(which, key, Tail(dests), source)

\* link(key, source, destinations=None, **kwargs)
link(key, source, destinations0, kwargs) ==
    LET destinations == Or(destinations0, KwGet(kwargs, "destination"))
    IN  IF ~IsList(destinations)
        THEN LinkStep("add", key, destinations, source, NoKwargs)
        ELSE LinkLoop("add", key, destinations.v, source)

\* unlink(key, source, destinations=None, **kwargs)
unlink(key, source, destinations0, kwargs) ==
    LET destinations == Or(destinations0, KwGet(kwargs, "destination"))
    IN  IF ~IsList(destinations)
        THEN LinkStep("remove", key, destinations, None, Kw("record", source))
        ELSE LinkLoop("remove", key, destinations.v, source)

----------------------------------------------------------------------------
(* Session: stage, commit, abort (concourse.py)                            *)

\* self.environment, with its default
Environment == PyStr(<<>>)
\* the place of an argument the remote procedure does not take
NotPassed == [t |-> "not passed"]

\* self.client.<name>(*args, self.creds, self.transaction, self.environment)
Invoke(name, args) ==
    [name |-> name, args |-> args, creds |-> creds, transaction |-> transaction,
     environment |-> Environment]
\* self.client.<name>(self.creds, token, self.environment) of commit and abort,
\* and self.client.stage(self.creds, self.environment)
InvokeSession(name, token) ==
    [name |-> name, args |-> <<>>, creds |-> creds, transaction |-> token,
     environment |-> Environment]

\* stage() that drops the server's answer
stage_NotStored(response) ==
    [calls |-> <<InvokeSession("stage", NotPassed)>>, transaction |-> transaction]

\* stage(): self.transaction = self.client.stage(...); response is what the
\* server answered
stage(response) ==
    [calls |-> <<InvokeSession("stage", NotPassed)>>, transaction |-> response]

\* commit that forgets the token only once the server has answered
commit_ClearAfter(response) ==
    LET token == transaction
    IN  [calls |-> IF Truthy(token) THEN <<InvokeSession("commit", token)>> ELSE <<>>,
         transaction |-> None, onfailure |-> token,
         returns |-> IF Truthy(token) THEN response ELSE PyBool(FALSE)]

\* commit that asks the server even when no transaction is open
commit_AlwaysCalls(response) ==
    LET token == transaction
    IN  [calls |-> <<InvokeSession("commit", token)>>,
         transaction |-> None, onfailure |-> None, returns |-> response]

\* commit(): the token is taken and forgotten before the remote call;
\* response is what the server answered
commit(response) ==
    LET token == transaction
    IN  [calls |-> IF Truthy(token) THEN <<InvokeSession("commit", token)>> ELSE <<>>,
         transaction |-> None, onfailure |-> None,
         returns |-> IF Truthy(token) THEN response ELSE PyBool(FALSE)]

\* abort()
abort ==
    IF Truthy(transaction)
    THEN [calls |-> <<InvokeSession("abort", transaction)>>, transaction |-> None,
          onfailure |-> None, returns |-> None]
    ELSE [calls |-> <<>>, transaction |-> transaction, onfailure |-> transaction,
          returns |-> None]

----------------------------------------------------------------------------
(* Behaviours of one client handle.  An operation is called when the       *)
(* handle is idle (op = NoOp) and runs to its end in one step; Return      *)
(* hands control back to the caller.                                       *)

Idle == op = NoOp

\* index of the first raise of a plan (Len + 1 when it has none)
FirstRaise(plan) ==
    IF \E i \in 1..Len(plan) : plan[i].k = "raise"
    THEN CHOOSE i \in 1..Len(plan) :
             plan[i].k = "raise" /\ \A j \in 1..(i - 1) : plan[j].k # "raise"
    ELSE Len(plan) + 1

\* a data operation that drops the transaction token when a remote call fails
DoReturning_ForgetsOnFailure(name, in, plan0, returns) ==
    /\ \E fail \in 0..Len(plan0) :
          LET stop == FirstRaise(plan0)
              last == IF fail > 0 THEN fail ELSE stop - 1
          IN  /\ fail < stop
              /\ calls' = [i \in 1..last |-> Invoke(plan0[i].name, plan0[i].args)]
              /\ outcome' = IF fail > 0 THEN "TException"
                            ELSE IF stop <= Len(plan0) THEN plan0[stop].name
                            ELSE IF IsError(returns) THEN returns.kind
                            ELSE "returned"
    /\ result' = IF outcome' = "returned" THEN returns ELSE NoResult
    /\ op' = [name |-> name, in |-> in]
    /\ transaction' = IF outcome' = "TException" THEN None ELSE transaction
    /\ UNCHANGED <<creds, issued, staged, unsent, loginCreds>>
    /\ UNCHANGED codecVars

\* A data operation runs its plan: every remote call either returns or fails
\* with a TException, which ends the operation; fail is the index of the
\* call that fails, 0 when none does.
\* returns is what the operation makes of the answers once every call of the
\* plan has returned: the value it hands back, or the error it raises.
DoReturning(name, in, plan0, returns) ==
    /\ \E fail \in 0..Len(plan0) :
          LET plan == plan0
              stop == FirstRaise(plan)
              last == IF fail > 0 THEN fail ELSE stop - 1
          IN  /\ fail < stop
              /\ calls' = [i \in 1..last |-> Invoke(plan[i].name, plan[i].args)]
              /\ outcome' = IF fail > 0 THEN "TException"
                            ELSE IF stop <= Len(plan) THEN plan[stop].name
                            ELSE IF IsError(returns) THEN returns.kind
                            ELSE "returned"
    /\ result' = IF outcome' = "returned" THEN returns ELSE NoResult
    /\ op' = [name |-> name, in |-> in]
    /\ UNCHANGED <<transaction, creds, issued, staged, unsent, loginCreds>>
    /\ UNCHANGED codecVars

\* an operation that hands the answer of its call back
Do(name, in, plan) == DoReturning(name, in, plan, Answer)

Return ==
    /\ ~Idle
    /\ op' = NoOp
    /\ calls' = <<>>
    /\ outcome' = "returned"
    /\ result' = NoResult
    /\ UNCHANGED <<transaction, creds, issued, staged, unsent, loginCreds>>
    /\ UNCHANGED codecVars

Stage ==
    /\ Idle
    /\ op' = [name |-> "stage", in |-> <<>>]
    /\ \/ /\ issued < MaxTokens
          /\ LET response == TransactionToken(issued + 1)
             IN  /\ calls' = stage(response).calls
                 /\ transaction' = stage(response).transaction
                 /\ staged' = response
                 /\ unsent' = unsent \cup {response}
          /\ issued' = issued + 1
          /\ outcome' = "returned"
          /\ result' = None
       \/ /\ calls' = stage(None).calls
          /\ outcome' = "TException"
          /\ result' = NoResult
          /\ UNCHANGED <<transaction, issued, staged, unsent>>
    /\ UNCHANGED <<creds, loginCreds>>
    /\ UNCHANGED codecVars

Commit ==
    /\ Idle
    /\ op' = [name |-> "commit", in |-> <<>>]
    /\ \E response \in {PyBool(TRUE), PyBool(FALSE)} :
          /\ calls' = commit(response).calls
          /\ \/ /\ outcome' = "returned"
                /\ transaction' = commit(response).transaction
                /\ result' = commit(response).returns
             \/ /\ commit(response).calls # <<>>
                /\ outcome' = "TException"
                /\ transaction' = commit(response).onfailure
                /\ result' = NoResult
    /\ staged' = None
    /\ unsent' = unsent \ {calls'[i].transaction : i \in 1..Len(calls')}
    /\ UNCHANGED <<creds, loginCreds, issued>>
    /\ UNCHANGED codecVars

Abort ==
    /\ Idle
    /\ op' = [name |-> "abort", in |-> <<>>]
    /\ calls' = abort.calls
    /\ \/ /\ outcome' = "returned"
          /\ transaction' = abort.transaction
          /\ result' = abort.returns
       \/ /\ abort.calls # <<>>
          /\ outcome' = "TException"
          /\ transaction' = abort.onfailure
          /\ result' = NoResult
    /\ staged' = None
    /\ unsent' = unsent \ {calls'[i].transaction : i \in 1..Len(calls')}
    /\ UNCHANGED <<creds, loginCreds, issued>>
    /\ UNCHANGED codecVars

(* The arguments the operations are called with *)

K1 == PyStr(<<107>>)                                   \* "k"
Ccl == PyStr(<<99>>)                                   \* a criteria string
Json == PyStr(<<123, 125>>)                            \* "{}"
TooBig == PyIntOf(FALSE, <<128, 0, 0, 0, 0, 0, 0, 0>>) \* 2^63
Records12 == PyList(<<I(1), I(2)>>)

KeysIn == {None, K1, PyList(<<>>), PyList(<<K1>>)}
GetKeysIn == {None, K1, PyList(<<>>), PyList(<<K1>>)}
RecordsIn == {None, I(0), I(1), PyList(<<>>), Records12, PyStr(<<114>>)}
GetRecordsIn == {None, I(0), I(1), Records12}
RecordIn == {None, I(0), I(1)}
TimestampIn == {None, I(0), I(5), PyStr(<<116>>)}
EndIn == {None, I(5), PyStr(<<116>>)}
CriteriaIn == {None, Ccl, Records12}
ValueIn == {I(0), I(1), PyStr(<<118>>), TooBig}
OperatorIn == {None, I(3), PyStr(<<61>>)}
RecordKw == {NoKwargs, Kw("record", I(0)), Kw("record", I(1))}
TimeKw == {NoKwargs, Kw("time", I(5))}
GetKw ==
    {NoKwargs, Kw("record", I(1)), Kw("time", I(5)), Kw("ts", PyStr(<<116>>)),
     Kw("ccl", Ccl)}
DestIn == {I(2), PyStr(<<120>>), TooBig}
DestinationsIn ==
    {None, I(0)} \cup DestIn
    \cup {PyList(d) : d \in UNION {[1..n -> DestIn] : n \in 0..MaxDest}}
FindKw ==
    {NoKwargs}
    \cup {[x \in {"key", "operator", "value"} |-> 
              CASE x = "key" -> K1 [] x = "operator" -> o [] OTHER -> v]
          : o \in OperatorIn \ {None}, v \in ValueIn}
    \cup {[x \in {"key", "operator", "values", "time"} |->
              CASE x = "key" -> K1 [] x = "operator" -> I(3)
                [] x = "values" -> PyList(<<I(1), I(0)>>) [] OTHER -> t]
          : t \in TimestampIn}

\* what the server answers to audit and chronologize: a mapping from
\* timestamp to entry, in the order of the wire
Timelines == {<<>>, <<1, 2>>, <<2, 1>>, <<3, 1, 2>>, <<2, 3, 1>>}
AuditAnswers ==
    {PyDict([i \in 1..Len(tl) |-> Item(I(tl[i]), PyStr(<<96 + tl[i]>>))])
     : tl \in Timelines}
ChronologizeAnswers ==
    {PyDict([i \in 1..Len(tl) |-> Item(I(tl[i]), PyList(<<python_to_thrift(I(tl[i]))>>))])
     : tl \in Timelines}

Add ==
    \E v \in ValueIn, records \in RecordsIn, kw \in RecordKw :
        /\ Idle
        /\ Do("add", [key |-> K1, value |-> v, records |-> records, kwargs |-> kw],
           add(K1, v, records, kw))
Remove ==
    \E v \in ValueIn, records \in RecordsIn, kw \in RecordKw :
        /\ Idle
        /\ Do("remove", [key |-> K1, value |-> v, records |-> records, kwargs |-> kw],
           remove(K1, v, records, kw))
Set ==
    \E v \in ValueIn, records \in RecordsIn, kw \in RecordKw :
        /\ Idle
        /\ Do("set", [key |-> K1, value |-> v, records |-> records, kwargs |-> kw],
           set(K1, v, records, kw))
Clear ==
    \E keys \in KeysIn, records \in RecordsIn,
       kw \in RecordKw \cup {Kw("key", K1)} :
        /\ Idle
        /\ Do("clear", [keys |-> keys, records |-> records, kwargs |-> kw],
           clear(keys, records, kw))
Describe ==
    \E records \in RecordsIn, timestamp \in TimestampIn,
       kw \in RecordKw \cup TimeKw :
        /\ Idle
        /\ Do("describe", [records |-> records, timestamp |-> timestamp, kwargs |-> kw],
           describe(records, timestamp, kw))
Ping ==
    \E records \in RecordsIn \cup {Omitted}, kw \in RecordKw :
        /\ Idle
        /\ Do("ping", [records |-> records, kwargs |-> kw], ping(records, kw))
Browse ==
    \E keys \in KeysIn, timestamp \in TimestampIn,
       kw \in TimeKw \cup {Kw("key", K1)} :
        /\ Idle
        /\ Do("browse", [keys |-> keys, timestamp |-> timestamp, kwargs |-> kw],
           browse(keys, timestamp, kw))
Get ==
    \E keys \in GetKeysIn, criteria \in CriteriaIn, records \in GetRecordsIn,
       timestamp \in TimestampIn, kw \in GetKw :
        /\ Idle
        /\ Do("get", [keys |-> keys, criteria |-> criteria, records |-> records,
                   timestamp |-> timestamp, kwargs |-> kw],
           get(keys, criteria, records, timestamp, kw))
Select ==
    \E keys \in GetKeysIn, criteria \in CriteriaIn, records \in GetRecordsIn,
       timestamp \in TimestampIn, kw \in GetKw :
        /\ Idle
        /\ Do("select", [keys |-> keys, criteria |-> criteria, records |-> records,
                      timestamp |-> timestamp, kwargs |-> kw],
           select(keys, criteria, records, timestamp, kw))
Audit ==
    \E key \in {None, K1, I(1)}, record \in RecordIn, start \in TimestampIn,
       end \in EndIn, kw \in TimeKw, data \in AuditAnswers :
        /\ Idle
        /\ DoReturning("audit", [key |-> key, record |-> record, start |-> start,
                                end |-> end, kwargs |-> kw, answer |-> data],
                       audit(key, record, start, end, kw), audit_return(data))
Chronologize ==
    \E record \in RecordIn, start \in TimestampIn, end \in EndIn, kw \in TimeKw,
       data \in ChronologizeAnswers :
        /\ Idle
        /\ DoReturning("chronologize", [key |-> K1, record |-> record, start |-> start,
                                       end |-> end, kwargs |-> kw, answer |-> data],
                       chronologize(K1, record, start, end, kw),
                       chronologize_return(data))
Diff ==
    \E key \in {None, K1}, record \in RecordIn, start \in TimestampIn,
       end \in EndIn, kw \in TimeKw :
        /\ Idle
        /\ Do("diff", [key |-> key, record |-> record, start |-> start, end |-> end,
                    kwargs |-> kw],
           diff(key, record, start, end, kw))
Revert ==
    \E keys \in GetKeysIn, records \in GetRecordsIn, timestamp \in TimestampIn,
       kw \in RecordKw \cup TimeKw :
        /\ Idle
        /\ Do("revert", [keys |-> keys, records |-> records, timestamp |-> timestamp,
                      kwargs |-> kw],
           revert(keys, records, timestamp, kw))
Find ==
    \E criteria \in {None, Ccl}, kw \in FindKw \cup {Kw("ccl", Ccl), Kw("query", Ccl)} :
        /\ Idle
        /\ Do("find", [criteria |-> criteria, kwargs |-> kw], find(criteria, kw))
Insert ==
    \E data \in {None, Json}, records \in RecordsIn,
       kw \in RecordKw \cup {Kw("json", Json)} :
        /\ Idle
        /\ Do("insert", [data |-> data, records |-> records, kwargs |-> kw],
           insert(data, records, kw))
Jsonify ==
    \E records \in RecordsIn, include_id \in {PyBool(FALSE), PyBool(TRUE)},
       timestamp \in TimestampIn, kw \in TimeKw :
        /\ Idle
        /\ Do("jsonify", [records |-> records, include_id |-> include_id,
                       timestamp |-> timestamp, kwargs |-> kw],
           jsonify(records, include_id, timestamp, kw))
Verify ==
    \E v \in ValueIn, record \in RecordIn, timestamp \in TimestampIn, kw \in TimeKw :
        /\ Idle
        /\ Do("verify", [key |-> K1, value |-> v, record |-> record,
                      timestamp |-> timestamp, kwargs |-> kw],
           verify(K1, v, record, timestamp, kw))
VerifyAndSwap ==
    \E key \in {None, K1}, expected \in {None, I(0), I(1)}, record \in {None, I(1)},
       replacement \in {None, I(1), TooBig},
       kw \in {NoKwargs, Kw("value", I(1)), Kw("new", I(1)),
               Kw("kwargs0", Kw("old", I(1)))} :
        /\ Idle
        /\ Do("verify_and_swap", [key |-> key, expected |-> expected, record |-> record,
                               replacement |-> replacement, kwargs |-> kw],
           verify_and_swap(key, expected, record, replacement, kw))
VerifyOrSet ==
    \E v \in ValueIn, record \in RecordIn :
        /\ Idle
        /\ Do("verify_or_set", [key |-> K1, value |-> v, record |-> record],
           verify_or_set(K1, v, record))
Search ==
    \E query \in {PyStr(<<>>), PyStr(<<113>>)} :
        /\ Idle
        /\ Do("search", [key |-> K1, query |-> query], search(K1, query))
Reconcile ==
    \E record \in RecordIn,
       values \in {None, I(1), PyList(<<>>), PyList(<<I(1), I(0)>>), PyList(<<TooBig>>)},
       kw \in {NoKwargs, Kw("value", PyList(<<I(1)>>))} :
        /\ Idle
        /\ Do("reconcile", [key |-> K1, record |-> record, values |-> values,
                         kwargs |-> kw],
           reconcile(K1, record, values, kw))
Time ==
    \E phrase \in {None, PyStr(<<>>), PyStr(<<116>>)} :
        /\ Idle
        /\ Do("time", [phrase |-> phrase], time(phrase))
Inventory ==
    /\ Idle
    /\ Do("inventory", <<>>, inventory)
FindOrAdd ==
    \E v \in ValueIn :
        /\ Idle
        /\ Do("find_or_add", [key |-> K1, value |-> v], find_or_add(K1, v))
FindOrInsert ==
    \E criteria \in {None, Ccl}, data \in {None, Json},
       kw \in {NoKwargs, Kw("json", Json), Kw("where", Ccl)} :
        /\ Idle
        /\ Do("find_or_insert", [criteria |-> criteria, data |-> data, kwargs |-> kw],
           find_or_insert(criteria, data, kw))
Link ==
    \E source \in {I(0), I(1)}, destinations \in DestinationsIn,
       kw \in {NoKwargs, Kw("destination", PyList(<<>>)),
               Kw("destination", PyList(<<I(2), I(3)>>))} :
        /\ Idle
        /\ Do("link", [key |-> K1, source |-> source, destinations |-> destinations,
                    kwargs |-> kw],
           link(K1, source, destinations, kw))
Unlink ==
    \E source \in {I(0), I(1)}, destinations \in DestinationsIn,
       kw \in {NoKwargs, Kw("destination", PyList(<<>>)),
               Kw("destination", PyList(<<I(2), I(3)>>))} :
        /\ Idle
        /\ Do("unlink", [key |-> K1, source |-> source, destinations |-> destinations,
                      kwargs |-> kw],
           unlink(K1, source, destinations, kw))

Init ==
    /\ ClientInit
    /\ value = None
    /\ tobject = None
    /\ py = None
    /\ phase = "input"

Next ==
    \/ Stage \/ Commit \/ Abort \/ Return
    \/ Add \/ Remove \/ Set \/ Clear \/ Describe \/ Ping \/ Browse \/ Get \/ Select
    \/ Audit \/ Chronologize \/ Diff \/ Revert \/ Find \/ Insert \/ Jsonify
    \/ Verify \/ VerifyAndSwap \/ VerifyOrSet \/ Search \/ Reconcile \/ Time
    \/ Inventory \/ FindOrAdd \/ FindOrInsert \/ Link \/ Unlink

Spec == Init /\ [][Next]_vars

----------------------------------------------------------------------------
(* Codec behaviours: one host value is encoded, then decoded               *)

Alphabet == {49, 97, 233, 8364, 128512}
Strings == UNION {[1..k -> Alphabet] : k \in 0..MaxStrLen}

LONG_MAX == PyIntOf(FALSE, <<127, 255, 255, 255, 255, 255, 255, 255>>)
LONG_MIN == PyIntOf(TRUE, <<128, 0, 0, 0, 0, 0, 0, 0>>)

IntSamples ==
    {I(0), I(1), I(-1), I(100), I(255), I(256), I(-256), I(65536),
     INT_MAX, INT_MIN,
     PyIntOf(FALSE, <<128, 0, 0, 0>>),            \* 2147483648
     PyIntOf(TRUE, <<128, 0, 0, 1>>),             \* -2147483649
     PyIntOf(FALSE, <<1, 0, 0, 0, 0>>),           \* 2^32
     PyIntOf(TRUE, <<255, 255, 255, 255, 255>>),  \* -(2^40 - 1)
     LONG_MAX, LONG_MIN,
     PyIntOf(FALSE, <<128, 0, 0, 0, 0, 0, 0, 0>>),  \* 2^63
     PyIntOf(TRUE, <<128, 0, 0, 0, 0, 0, 0, 1>>),   \* -2^63 - 1
     PyIntOf(FALSE, <<1, 0, 0, 0, 0, 0, 0, 0, 0>>)} \* 2^64

FloatSamples ==
    {PyFloat(0, 0, <<0, 0, 0, 0, 0, 0, 0>>),              \* 0.0
     PyFloat(1, 0, <<0, 0, 0, 0, 0, 0, 0>>),              \* -0.0
     PyFloat(0, 1023, <<8, 0, 0, 0, 0, 0, 0>>),           \* 1.5
     PyFloat(1, 1024, <<0, 0, 0, 0, 0, 0, 0>>),           \* -2.0
     PyFloat(0, 1024, <<9, 37, 243, 9, 91, 195, 60>>),    \* about 3.14353
     PyFloat(0, 1150, <<15, 255, 255, 224, 0, 0, 0>>),    \* 3.4028235E38
     PyFloat(1, 874, <<0, 0, 0, 0, 0, 0, 0>>),            \* -1.4E-45
     PyFloat(0, 2047, <<0, 0, 0, 0, 0, 0, 0>>),           \* inf
     PyFloat(0, 2047, <<8, 0, 0, 0, 0, 0, 0>>)}           \* nan

\* record ids are 64-bit on the wire; the driver accepts negative ids
LinkSamples ==
    {LinkTo(I(0)), LinkTo(I(1)), LinkTo(I(-1)), LinkTo(I(2147483647)),
     LinkTo(PyIntOf(FALSE, <<128, 0, 0, 0>>)), LinkTo(LONG_MAX), LinkTo(LONG_MIN)}

OtherSamples == {None, PyObject(<<97, 49>>), PyObject(<<49>>)}

Values ==
    {PyBool(TRUE), PyBool(FALSE)} \cup IntSamples \cup FloatSamples
    \cup {PyStr(s) : s \in Strings} \cup {TagCreate(PyStr(s)) : s \in Strings}
    \cup LinkSamples \cup OtherSamples

InitCodec ==
    /\ value \in Values
    /\ tobject = None
    /\ py = None
    /\ phase = "input"
    /\ ClientInit

\* tobject = python_to_thrift(value)
Encode ==
    /\ phase = "input"
    /\ tobject' = python_to_thrift(value)
    /\ phase' = "encoded"
    /\ UNCHANGED <<value, py>>
    /\ UNCHANGED clientVars

\* py = thrift_to_python(tobject)
Decode ==
    /\ phase = "encoded"
    /\ IsTObject(tobject)
    /\ py' = thrift_to_python(tobject)
    /\ phase' = "decoded"
    /\ UNCHANGED <<value, tobject>>
    /\ UNCHANGED clientVars

NextCodec == Encode \/ Decode
SpecCodec == InitCodec /\ [][NextCodec]_vars

----------------------------------------------------------------------------
(* Container and wire behaviours: a mapping is converted deep and back, a  *)
(* TObject off the wire is decoded, a Link is made of a record id          *)

MapKeys == {PyStr(<<97>>), PyStr(<<98>>)}
MapValues == {I(1), I(-7), PyList(<<>>), PyList(<<I(2)>>), PyList(<<I(2), I(3)>>)}
\* the mappings of up to two keys, in either insertion order
Mappings ==
    {PyDict(<<>>)}
    \cup {PyDict(<<Item(k, v)>>) : k \in MapKeys, v \in MapValues}
    \cup {PyDict(<<Item(k[1], v[1]), Item(k[2], v[2])>>) :
            k \in {q \in MapKeys \X MapKeys : q[1] # q[2]}, v \in MapValues \X MapValues}

\* the kinds of the wire and two that thrift_to_python does not name
WireKinds ==
    {"BOOLEAN", "INTEGER", "LONG", "DOUBLE", "FLOAT", "STRING", "TAG", "LINK", "NULL",
     "TIMESTAMP", "FUNCTION"}
WirePayloads ==
    {<<>>, <<1>>, <<97, 98>>, <<255>>, <<0, 0, 0, 5>>,
     <<0, 0, 0, 0, 0, 0, 0, 7>>, <<255, 255, 255, 255, 255, 255, 255, 255>>}
WireObjects == {[t |-> "TObject", data |-> d, type |-> k] : k \in WireKinds, d \in WirePayloads}

\* what a Link is asked to point to
LinkIds ==
    {I(0), I(1), I(-1), I(-256), LONG_MAX, LONG_MIN, PyBool(TRUE), None,
     PyStr(<<49>>), PyFloat(0, 1023, <<8, 0, 0, 0, 0, 0, 0>>), PyList(<<I(1)>>)}

\* lists and mappings that already hold TObjects
Encoded1 == [t |-> "TObject", data |-> <<0, 0, 0, 1>>, type |-> "INTEGER"]
EncodedA == [t |-> "TObject", data |-> <<97>>, type |-> "STRING"]
PartlyEncoded ==
    {PyList(<<>>), PyList(<<I(1), I(2)>>), PyList(<<Encoded1, I(2)>>),
     PyList(<<PyList(<<Encoded1>>), EncodedA>>),
     PyDict(<<Item(EncodedA, I(1))>>), PyDict(<<Item(PyStr(<<97>>), Encoded1)>>),
     PyDict(<<Item(EncodedA, Encoded1)>>)}

\* mappings off the wire: TObject keys of every kind, one or two entries
WireKey(kind) ==
    [t |-> "TObject", type |-> kind,
     data |-> CASE kind = "BOOLEAN" -> <<1>>
                [] kind = "INTEGER" -> <<0, 0, 0, 1>>
                [] kind = "DOUBLE" -> <<63, 240, 0, 0, 0, 0, 0, 0>>
                [] kind = "FLOAT" -> <<63, 128, 0, 0>>
                [] kind \in {"LONG", "LINK"} -> <<0, 0, 0, 0, 0, 0, 0, 1>>
                [] OTHER -> <<97>>]
KeyKinds == {"BOOLEAN", "INTEGER", "LONG", "DOUBLE", "FLOAT", "STRING", "TAG", "LINK"}
WireMappings ==
    {PyDict(<<Item(WireKey(k), Encoded1)>>) : k \in KeyKinds}
    \cup UNION {{PyDict(<<Item(WireKey(j), Encoded1), Item(WireKey(k), EncodedA)>>) :
                     k \in KeyKinds \ {j}} : j \in KeyKinds \ {"TAG", "LINK"}}
    \cup {PyDict(<<Item(EncodedA, Encoded1),
                   Item([t |-> "TObject", data |-> <<98>>, type |-> "STRING"], EncodedA)>>)}

InitValues ==
    /\ value \in Mappings \cup PartlyEncoded \cup WireObjects \cup LinkIds \cup WireMappings
    /\ tobject = None
    /\ py = None
    /\ phase = "input"
    /\ ClientInit

\* tobject = thriftify(value)
Thriftify ==
    /\ phase = "input"
    /\ IsDict(value) \/ IsList(value)
    /\ tobject' = thriftify(value)
    /\ phase' = "thriftified"
    /\ UNCHANGED <<value, py>>
    /\ UNCHANGED clientVars

\* py = pythonify(tobject)
Pythonify ==
    /\ phase = "thriftified"
    /\ ~IsError(tobject)
    /\ py' = pythonify(tobject)
    /\ phase' = "pythonified"
    /\ UNCHANGED <<value, tobject>>
    /\ UNCHANGED clientVars

\* py = pythonify(value), value a mapping off the wire
PythonifyAnswer ==
    /\ phase = "input"
    /\ value \in WireMappings
    /\ py' = pythonify(value)
    /\ phase' = "answered"
    /\ UNCHANGED <<value, tobject>>
    /\ UNCHANGED clientVars

\* py = thriftify(tobject), a second time
Rethriftify ==
    /\ phase = "thriftified"
    /\ ~IsError(tobject)
    /\ py' = thriftify(tobject)
    /\ phase' = "rethriftified"
    /\ UNCHANGED <<value, tobject>>
    /\ UNCHANGED clientVars

\* py = thrift_to_python(value), value a TObject off the wire
ThriftToPython ==
    /\ phase = "input"
    /\ IsTObject(value)
    /\ py' = thrift_to_python(value)
    /\ phase' = "decoded"
    /\ UNCHANGED <<value, tobject>>
    /\ UNCHANGED clientVars

\* py = Link.to(value)
NewLink ==
    /\ phase = "input"
    /\ value \in LinkIds
    /\ py' = LinkTo(value)
    /\ phase' = "linked"
    /\ UNCHANGED <<value, tobject>>
    /\ UNCHANGED clientVars

NextValues == Thriftify \/ Pythonify \/ PythonifyAnswer \/ Rethriftify \/ ThriftToPython \/ NewLink
SpecValues == InitValues /\ [][NextValues]_vars

----------------------------------------------------------------------------
(* Claims about the codec (checked under SpecCodec)                        *)

InLongRange(v) == ~IntLess(v, LONG_MIN) /\ ~IntLess(LONG_MAX, v)
Representable(v) ==
    \/ v.t \in {"bool", "float", "Tag", "Link", "str"}
    \/ v.t = "int" /\ InLongRange(v)

C2_KindBoundary ==
    (phase # "input" /\ value.t = "int" /\ InLongRange(value)) =>
        /\ IsTObject(tobject)
        /\ tobject.type \in {"INTEGER", "LONG"}
        /\ tobject.type = "INTEGER" <=>
              (~IntLess(value, PyIntOf(TRUE, <<128, 0, 0, 0>>))
               /\ ~IntLess(PyIntOf(FALSE, <<127, 255, 255, 255>>), value))
        /\ value = PyIntOf(FALSE, <<127, 255, 255, 255>>) => tobject.type = "INTEGER"
        /\ value = PyIntOf(TRUE, <<128, 0, 0, 0>>) => tobject.type = "INTEGER"
        /\ value = PyIntOf(FALSE, <<128, 0, 0, 0>>) => tobject.type = "LONG"
        /\ value = PyIntOf(TRUE, <<128, 0, 0, 1>>) => tobject.type = "LONG"

\* -2147483649 has been encoded, as a LONG of 8 bytes
C2_Witness ==
    /\ phase = "encoded"
    /\ value = PyIntOf(TRUE, <<128, 0, 0, 1>>)
    /\ IsTObject(tobject)
    /\ tobject.type = "LONG"
    /\ tobject.data = <<255, 255, 255, 255, 127, 255, 255, 255>>

----------------------------------------------------------------------------
(* Claims about the client handle (Spec)                                   *)

DataOps ==
    {"add", "get", "select", "find", "browse", "describe", "audit", "chronologize",
     "diff", "revert", "remove", "set", "verify", "verify_and_swap", "verify_or_set",
     "insert", "ping", "clear", "link", "unlink", "search", "reconcile", "time",
     "inventory"}
IsDataOp == op.name \in DataOps \cup {"jsonify", "find_or_add", "find_or_insert"}
\* the input of the operation that has run, None when it has no such parameter
In(name) == IF name \in DOMAIN op.in THEN op.in[name] ELSE None
IsNumber(x) == x.t = "int"
UsageErrors == {"ValueError", "struct.error"}

\* C4: get with records a list and a numeric timestamp, without keys or
\* criteria, selects getRecordsTime and never getRecords.
C4_GetRecordsTime ==
    (/\ op.name = "get"
     /\ IsList(In("records")) /\ Truthy(In("records"))
     /\ IsNumber(In("timestamp"))
     /\ In("keys") = None /\ In("criteria") = None /\ In("kwargs") = NoKwargs)
    => /\ calls # <<>>
       /\ \A i \in 1..Len(calls) : calls[i].name = "getRecordsTime"

\* a call that supplies no key, no record and no criteria, by position or by name
SuppliesNone ==
    /\ \A n \in {"key", "keys", "record", "records", "criteria"} : In(n) = None
    /\ DOMAIN In("kwargs")
         \cap {"key", "record", "id", "criteria", "ccl", "where", "query"} = {}

\* C5: get, select, browse, describe, clear, audit, diff, revert, remove and
\* ping, called with none of key(s), record(s) or criteria, raise a usage error
\* and invoke no remote call.
C5_NothingSupplied ==
    (/\ op.name \in {"get", "select", "browse", "describe", "clear", "audit", "diff",
                     "revert", "remove", "ping"}
     /\ SuppliesNone)
    => (outcome \in UsageErrors /\ calls = <<>>)

\* clear() with neither key(s) nor record(s)
ClearNothing(o) ==
    /\ o.name = "clear"
    /\ o.in.keys = None /\ o.in.records = None
    /\ DOMAIN o.in.kwargs \cap {"key", "record"} = {}

\* C6: clear() with neither key(s) nor record(s) raises a usage error, performs
\* no remote call and leaves the session (credentials, transaction) as it was.
C6_ClearUsageError ==
    /\ [](ClearNothing(op) => (outcome = "ValueError" /\ calls = <<>>))
    /\ [][ClearNothing(op') => (transaction' = transaction /\ creds' = creds)]_vars
C6_Witness ==
    ClearNothing(op) /\ outcome = "ValueError" /\ transaction = TransactionToken(1)

\* C7: an operation that ends in a usage error has invoked no remote call.
C7_UsageErrorBeforeCalls ==
    outcome \in UsageErrors => calls = <<>>

\* C8 as stated: a data operation that returns normally has invoked the
\* transport exactly once.
C8_ExactlyOnce ==
    (op.name \in DataOps /\ outcome = "returned") => Len(calls) = 1

\* the destinations link and unlink work on
Destinations == Or(In("destinations"), KwGet(In("kwargs"), "destination"))
LoopsOverDestinations == op.name \in {"link", "unlink"} /\ IsList(Destinations)

\* C8: a data operation that returns normally has invoked the transport exactly
\* once, except link and unlink given a list of destinations, which invoke it
\* once per destination.
C8_OncePerDestination ==
    (op.name \in DataOps /\ outcome = "returned")
    => Len(calls) = IF LoopsOverDestinations THEN Len(Destinations.v) ELSE 1
C8_Witness ==
    /\ op.name = "link" /\ outcome = "returned"
    /\ LoopsOverDestinations /\ Len(Destinations.v) = 2 /\ Len(calls) = 2

C10_NoTokenAfterCommit ==
    /\ op.name \in {"commit", "abort"} => transaction = None
    /\ (IsDataOp /\ staged = None)
       => \A i \in 1..Len(calls) : calls[i].transaction = None
C10_Witness ==
    /\ op.name \in {"commit", "abort"} /\ outcome = "TException"
    /\ issued = 1 /\ transaction = None

\* C11: with no transaction token held, commit() returns False and abort()
\* does nothing: neither invokes a remote call, and the token and the
\* credentials stay as they were.
C11_NoTransactionNoCall ==
    [][(op'.name \in {"commit", "abort"} /\ transaction = None)
       => /\ calls' = <<>>
          /\ outcome' = "returned"
          /\ op'.name = "commit" => result' = PyBool(FALSE)
          /\ op'.name = "abort" => result' = None
          /\ transaction' = None
          /\ creds' = creds]_vars
C11_Witness ==
    /\ op.name = "commit" /\ calls = <<>> /\ result = PyBool(FALSE)
    /\ issued = 1 /\ transaction = None

\* the remote call C12 expects of add and insert for the records they are given
ExpectedByRecords ==
    LET stem == IF op.name = "add" THEN "addKeyValue" ELSE "insertJson"
        records == In("records")
    IN  IF records = None THEN {stem}
        ELSE IF IsList(records) THEN {IF op.name = "add" THEN "addKeyValueRecords"
                                      ELSE "insertJsonRecords"}
        ELSE IF IsNumber(records) THEN {IF op.name = "add" THEN "addKeyValueRecord"
                                        ELSE "insertJsonRecord"}
        ELSE {}

\* C12: add and insert choose their remote call from the shape of records
\* alone: absent selects addKeyValue / insertJson, a list selects
\* addKeyValueRecords / insertJsonRecords, a single integer selects
\* addKeyValueRecord / insertJsonRecord.
C12_RecordsShape ==
    (op.name \in {"add", "insert"} /\ In("kwargs") = NoKwargs)
    => \A i \in 1..Len(calls) : calls[i].name \in ExpectedByRecords

\* the keys of a dict, in iteration order
Keys(d) == [i \in 1..Len(d.v) |-> d.v[i].k]
Ascending(ks) == \A i \in 1..(Len(ks) - 1) : IntLess(ks[i], ks[i + 1])
\* the same entries: every item of one is an item of the other, converted
SameEntries(a, b) ==
    /\ Len(a.v) = Len(b.v)
    /\ \A i \in 1..Len(a.v) :
           \E j \in 1..Len(b.v) : b.v[j].k = a.v[i].k /\ b.v[j].v = pythonify(a.v[i].v)

\* C13: the mapping audit and chronologize return iterates in strictly
\* ascending timestamp order and holds exactly the entries the transport
\* returned, whatever the order on the wire.
C13_SortedByTimestamp ==
    (op.name \in {"audit", "chronologize"} /\ outcome = "returned")
    => /\ IsDict(result)
       /\ Ascending(Keys(result))
       /\ SameEntries(op.in.answer, result)
C13_Witness ==
    /\ op.name = "audit" /\ outcome = "returned"
    /\ Keys(op.in.answer) = <<I(3), I(1), I(2)>>
    /\ Keys(result) = <<I(1), I(2), I(3)>>

\* the plan of an operation that takes records, timestamp or criteria, on
\* the inputs in
PlanOf(name, in) ==
    CASE name = "add" -> add(in.key, in.value, in.records, in.kwargs)
      [] name = "remove" -> remove(in.key, in.value, in.records, in.kwargs)
      [] name = "set" -> set(in.key, in.value, in.records, in.kwargs)
      [] name = "clear" -> clear(in.keys, in.records, in.kwargs)
      [] name = "describe" -> describe(in.records, in.timestamp, in.kwargs)
      [] name = "ping" -> ping(in.records, in.kwargs)
      [] name = "browse" -> browse(in.keys, in.timestamp, in.kwargs)
      [] name = "get" -> get(in.keys, in.criteria, in.records, in.timestamp, in.kwargs)
      [] name = "select" -> select(in.keys, in.criteria, in.records, in.timestamp, in.kwargs)
      [] name = "audit" -> audit(in.key, in.record, in.start, in.end, in.kwargs)
      [] name = "chronologize" -> chronologize(in.key, in.record, in.start, in.end, in.kwargs)
      [] name = "diff" -> diff(in.key, in.record, in.start, in.end, in.kwargs)
      [] name = "revert" -> revert(in.keys, in.records, in.timestamp, in.kwargs)
      [] name = "find" -> find(in.criteria, in.kwargs)
      [] name = "insert" -> insert(in.data, in.records, in.kwargs)
      [] name = "jsonify" -> jsonify(in.records, in.include_id, in.timestamp, in.kwargs)
      [] name = "verify" -> verify(in.key, in.value, in.record, in.timestamp, in.kwargs)
      [] name = "find_or_insert" -> find_or_insert(in.criteria, in.data, in.kwargs)
AliasOps ==
    {"add", "remove", "set", "clear", "describe", "ping", "browse", "get", "select",
     "audit", "chronologize", "diff", "revert", "find", "insert", "jsonify", "verify",
     "find_or_insert"}
\* the parameter of the operation an alias stands for (its timestamp is start
\* in audit, chronologize and diff)
Canonical(name, alias) ==
    CASE alias = "record" -> "records"
      [] alias \in {"time", "ts"} ->
            IF name \in {"audit", "chronologize", "diff"} THEN "start" ELSE "timestamp"
      [] alias \in {"ccl", "where", "query"} -> "criteria"
      [] OTHER -> "no parameter"
\* the operation was given one keyword argument, an alias, and nothing under
\* the name the alias stands for
TheAlias == CHOOSE a \in DOMAIN op.in.kwargs : TRUE
AliasOnly ==
    /\ op.name \in AliasOps
    /\ \E a \in DOMAIN op.in.kwargs : DOMAIN op.in.kwargs = {a}
    /\ Canonical(op.name, TheAlias) \in DOMAIN op.in
    /\ op.in[Canonical(op.name, TheAlias)] \in {None, Omitted}
\* the same inputs with the value under the canonical name
UnderCanonicalName ==
    [op.in EXCEPT ![Canonical(op.name, TheAlias)] = op.in.kwargs[TheAlias],
                  !.kwargs = NoKwargs]
\* the names find_in_kwargs_by_alias looks under for a key
LookedUnder(key) ==
    CASE key = "criteria" -> {"criteria", "ccl", "where", "query"}
      [] key = "timestamp" -> {"timestamp", "time", "ts"}
      [] key = "record" -> {"record", "id"}
      [] OTHER -> {key}

\* C15: supplying a parameter under an alias (record for records, time or ts
\* for timestamp, ccl, where or query for criteria) selects the same remote
\* call with the same arguments as supplying it under its canonical name, and
\* find_in_kwargs_by_alias returns None when neither the name nor an alias is
\* among the keyword arguments.
C15_AliasAsCanonical ==
    /\ (AliasOnly /\ outcome # "TException")
       => LET plan == PlanOf(op.name, UnderCanonicalName)
              stop == FirstRaise(plan)
          IN  /\ calls = [i \in 1..(stop - 1) |-> Invoke(plan[i].name, plan[i].args)]
              /\ stop <= Len(plan) => outcome = plan[stop].name
              /\ stop > Len(plan) => outcome \notin UsageErrors \cup {"TypeError"}
    /\ op.name \in AliasOps
       => \A key \in {"criteria", "timestamp", "record", "foo"} :
              DOMAIN op.in.kwargs \cap LookedUnder(key) = {}
              => find_in_kwargs_by_alias(key, op.in.kwargs) = None

\* the values an operation is given to encode: its value, expected and
\* replacement parameters and the value(s) among its keyword arguments
ListItems(x) == IF IsList(x) THEN {x.v[i] : i \in 1..Len(x.v)} ELSE {x}
GivenValues ==
    {In("value"), In("expected"), In("replacement")}
    \cup UNION {ListItems(In("kwargs")[k]) :
                  k \in DOMAIN In("kwargs") \cap {"value", "values", "new"}}
OutOfLongRange(v) == v.t = "int" /\ ~InLongRange(v)

\* C16: encoding an integer outside [-2^63, 2^63 - 1] is a usage error:
\* python_to_thrift produces no TObject for it, and an operation given such a
\* value to encode fails without invoking a remote call.
C16_OutOfRangeNoCall ==
    \A v \in GivenValues :
        (IsDataOp /\ OutOfLongRange(v))
        => /\ python_to_thrift(v) = Error("struct.error")
           /\ calls = <<>>
           /\ outcome \notin {"returned", "TException"}
C16_Witness ==
    /\ op.name = "verify_or_set" /\ OutOfLongRange(In("value"))
    /\ outcome = "struct.error" /\ calls = <<>>
    /\ transaction = TransactionToken(1)

\* the remote calls that take a timestamp, without their Time / Timestr ending
TimeStems ==
    {"browseKey", "browseKeys", "describeRecord", "describeRecords",
     "findKeyOperatorValues", "findKeyOperatorstrValues", "getCcl", "getKeyCcl",
     "getKeyRecord", "getKeyRecords", "getKeysCcl", "getKeysRecord", "getKeysRecords",
     "getRecords", "jsonifyRecords", "revertKeyRecord", "revertKeyRecords",
     "revertKeysRecord", "revertKeysRecords", "selectCcl", "selectKeyCcl",
     "selectKeyRecord", "selectKeyRecords", "selectKeysCcl", "selectKeysRecord",
     "selectKeysRecords", "selectRecord", "selectRecords", "verifyKeyValueRecord"}
TimeCalls == {stem \o "Time" : stem \in TimeStems}
TimestrCalls == {stem \o "Timestr" : stem \in TimeStems}
TimestampOps ==
    {"get", "select", "browse", "describe", "find", "revert", "verify", "jsonify"}
\* the timestamps the operation was given, under the name or an alias
SuppliedTimestamps ==
    ({In("timestamp")} \cup {KwGet(In("kwargs"), k) : k \in {"timestamp", "time", "ts"}})
        \ {None}
Carries(call, x) == \E j \in 1..Len(call.args) : call.args[j] = x

\* C19: for get, select, browse, describe, find, revert, verify and jsonify,
\* when a timestamp is supplied every remote call made carries it, as a Time
\* variant for a numeric timestamp and a Timestr variant for a string, never
\* a variant without the timestamp, whatever else is supplied.
C19_TimestampCarried ==
    (op.name \in TimestampOps /\ SuppliedTimestamps # {})
    => \A i \in 1..Len(calls) :
           \E ts \in SuppliedTimestamps :
               /\ Carries(calls[i], ts)
               /\ IsNumber(ts) => calls[i].name \in TimeCalls
               /\ IsStr(ts) => calls[i].name \in TimestrCalls

\* the remote calls that take a start, without their ending
StartStems ==
    {"auditKeyRecord", "auditRecord", "chronologizeKeyRecord", "diffKeyRecord",
     "diffKey", "diffRecord"}
StartEndCalls ==
    {stem \o "StartEnd" : stem \in StartStems}
    \cup {stem \o "StartstrEndstr" : stem \in StartStems}
\* the starts the operation was given, under the name or an alias
SuppliedStarts ==
    ({In("start")} \cup {KwGet(In("kwargs"), k) : k \in {"timestamp", "time", "ts"}})
        \ {None}

\* C20: for audit, chronologize and diff, when both start and end are
\* supplied every remote call made carries both of them (a StartEnd or
\* StartstrEndstr variant), for every mix of numeric and string start and end;
\* a supplied end is never dropped.
C20_StartAndEndCarried ==
    (/\ op.name \in {"audit", "chronologize", "diff"}
     /\ SuppliedStarts # {} /\ In("end") # None)
    => \A i \in 1..Len(calls) :
           /\ calls[i].name \in StartEndCalls
           /\ Carries(calls[i], In("end"))
           /\ \E start \in SuppliedStarts : Carries(calls[i], start)

\* the shapes C21 speaks of: keys absent, one key or a non-empty list; one
\* source, a criteria string, a record id or a non-empty list of record ids;
\* a timestamp absent, numeric or a string
NonEmptyList(x) == IsList(x) /\ x.v # <<>>
ShapedKeys == In("keys") = None \/ IsStr(In("keys")) \/ NonEmptyList(In("keys"))
ShapedCriteria == IsStr(In("criteria")) /\ In("records") = None
ShapedRecords ==
    In("criteria") = None /\ (IsNumber(In("records")) \/ NonEmptyList(In("records")))
ShapedTimestamp ==
    In("timestamp") = None \/ IsNumber(In("timestamp")) \/ IsStr(In("timestamp"))
Shaped ==
    /\ In("kwargs") = NoKwargs
    /\ ShapedKeys /\ (ShapedCriteria \/ ShapedRecords) /\ ShapedTimestamp
\* the remote call the three shapes name, after the prefix, and its arguments
ShapedName ==
    (IF In("keys") = None THEN "" ELSE IF IsList(In("keys")) THEN "Keys" ELSE "Key")
    \o (IF ShapedCriteria THEN "Ccl"
        ELSE IF IsList(In("records")) THEN "Records" ELSE "Record")
    \o (IF In("timestamp") = None THEN ""
        ELSE IF IsStr(In("timestamp")) THEN "Timestr" ELSE "Time")
ShapedArgs ==
    (IF In("keys") = None THEN <<>> ELSE <<In("keys")>>)
    \o <<IF ShapedCriteria THEN In("criteria") ELSE In("records")>>
    \o (IF In("timestamp") = None THEN <<>> ELSE <<In("timestamp")>>)

\* C21: for keys absent, single or a non-empty list, exactly one of a
\* criteria string, a record id or a non-empty list of record ids, and a
\* timestamp absent, numeric or a string, select invokes exactly the remote
\* call select + (''|Key|Keys) + (Ccl|Record|Records) + (''|Time|Timestr)
\* of those shapes, passing keys, source and timestamp unchanged.
C21_SelectByShape ==
    (op.name = "select" /\ Shaped /\ outcome # "TException")
    => /\ outcome = "returned"
       /\ Len(calls) = 1
       /\ calls[1].name = "select" \o ShapedName
       /\ calls[1].args = ShapedArgs

\* find(key, operator, value=v) or find(key, operator, values=[v1..vn]),
\* with nothing else: the values given, as a list
FindByValues ==
    /\ op.name = "find" /\ In("criteria") = None
    /\ \/ DOMAIN In("kwargs") = {"key", "operator", "value"}
       \/ DOMAIN In("kwargs") = {"key", "operator", "values"}
FindValues ==
    IF "value" \in DOMAIN In("kwargs") THEN <<In("kwargs")["value"]>>
    ELSE In("kwargs")["values"].v
Encodable(v) == ~IsError(python_to_thrift(v))

\* C22: find(key, operator, value=v) passes exactly [encode(v)] as the values
\* argument and find(key, operator, values=[v1..vn]) passes
\* [encode(v1)..encode(vn)] in order, for every encodable v (0, False and the
\* empty string included); an enum operator selects the Operator variant and
\* a string operator the Operatorstr variant.
C22_FindEncodesValues ==
    (/\ FindByValues /\ outcome # "TException"
     /\ \A i \in 1..Len(FindValues) : Encodable(FindValues[i]))
    => /\ Len(calls) = 1
       /\ calls[1].name = IF IsStr(In("kwargs")["operator"])
                          THEN "findKeyOperatorstrValues" ELSE "findKeyOperatorValues"
       /\ calls[1].args =
              <<In("kwargs")["key"], In("kwargs")["operator"],
                PyList([i \in 1..Len(FindValues) |-> python_to_thrift(FindValues[i])])>>

\* what verify_and_swap was given for a parameter, under its name or one of
\* its aliases (None when under neither)
GivenUnder(name, aliases) ==
    IF In(name) # None THEN In(name)
    ELSE IF \E k \in aliases : k \in DOMAIN In("kwargs")
         THEN In("kwargs")[CHOOSE k \in aliases : k \in DOMAIN In("kwargs")]
    ELSE None
GivenExpected == GivenUnder("expected", {"value", "current", "old"})
GivenReplacement == GivenUnder("replacement", {"new", "other", "value2"})
PlainSwap ==
    /\ op.name = "verify_and_swap"
    /\ DOMAIN In("kwargs") \subseteq {"value", "current", "old", "new", "other", "value2"}

\* C23: verify_and_swap given key, expected, record and replacement, under
\* their names or their aliases, invokes verifyAndSwap exactly once with the
\* encoded expected and replacement, for every encodable value (0, False and
\* the empty string included); when one of the four is missing it raises a
\* usage error and invokes no remote call.
C23_VerifyAndSwap ==
    (PlainSwap /\ outcome # "TException")
    => IF \E x \in {In("key"), GivenExpected, In("record"), GivenReplacement} : x = None
       THEN outcome \in UsageErrors /\ calls = <<>>
       ELSE (Encodable(GivenExpected) /\ Encodable(GivenReplacement))
            => /\ Len(calls) = 1
               /\ calls[1].name = "verifyAndSwap"
               /\ calls[1].args = <<In("key"), python_to_thrift(GivenExpected),
                                    In("record"), python_to_thrift(GivenReplacement)>>

\* what follows "select" or "get" in the name of a remote call
OverloadSuffixes ==
    {k \o s \o t : k \in {"", "Key", "Keys"}, s \in {"Ccl", "Record", "Records"},
                   t \in {"", "Time", "Timestr"}}
\* what select does with the arguments the operation was given
AsSelect == PlanOf("select", op.in)

\* C25: get and select resolve overloads identically: for every combination
\* of keys, criteria, record(s) and timestamp, get invokes the call select
\* invokes with the prefix "select" replaced by "get" and the same arguments,
\* and raises a usage error exactly when select does.
C25_GetAsSelect ==
    (op.name = "get" /\ outcome # "TException")
    => IF AsSelect[1].k = "raise"
       THEN outcome \in UsageErrors /\ calls = <<>>
       ELSE /\ outcome = "returned"
            /\ Len(calls) = 1
            /\ \E x \in OverloadSuffixes :
                   /\ AsSelect[1].name = "select" \o x
                   /\ calls[1].name = "get" \o x
            /\ calls[1].args = AsSelect[1].args


\* C26: between operations, every transaction token the client received from
\* stage() and has not yet sent in a commit or abort call is the token it
\* holds: no started transaction is left that the client can no longer commit
\* or abort.
C26_NoOrphanTransaction == \A token \in unsent : transaction = token


\* the operations that may change the transaction token
SessionOps == {"stage", "commit", "abort"}

\* C27: only stage(), commit() and abort() change the client's transaction
\* token, and nothing after login changes its credentials: every data
\* operation, whether it returns, raises a usage error or propagates a remote
\* failure, leaves both unchanged.
C27_OnlySessionOpsChangeToken ==
    /\ [][op'.name \notin SessionOps => transaction' = transaction]_vars
    /\ [][creds' = creds]_vars
    /\ [](creds = loginCreds)
C27_Witness ==
    /\ IsDataOp /\ outcome = "TException" /\ Len(calls) = 1
    /\ transaction = TransactionToken(1) /\ creds = loginCreds


\* the operations that take a single record id
SingleRecordOps ==
    {"add", "set", "remove", "get", "select", "clear", "describe", "insert", "ping"}
\* the operation was given record id 0, as records or under the keyword record
ZeroPositional == In("records") = I(0) /\ "record" \notin DOMAIN op.in.kwargs
ZeroByKeyword == In("records") = None /\ op.in.kwargs = Kw("record", I(0))
GivenRecordZero == op.name \in SingleRecordOps /\ (ZeroPositional \/ ZeroByKeyword)
\* what the operation does with record id n in the place of 0
WithRecord(n) ==
    PlanOf(op.name, IF ZeroPositional THEN [op.in EXCEPT !.records = I(n)]
                    ELSE [op.in EXCEPT !.kwargs = Kw("record", I(n))])
\* record ids 1 and 2 select one call, and the record is among its arguments
SelectsByRecord ==
    /\ WithRecord(1)[1].k = "call" /\ WithRecord(2)[1].k = "call"
    /\ WithRecord(1)[1].name = WithRecord(2)[1].name
    /\ WithRecord(1)[1].args # WithRecord(2)[1].args
\* the arguments of that call for record id 0
ArgsForZero ==
    LET one == WithRecord(1)[1].args
        two == WithRecord(2)[1].args
    IN  [i \in 1..Len(one) |-> IF one[i] # two[i] THEN I(0) ELSE one[i]]

\* C28: for add, set, remove, get, select, clear, describe, insert and ping,
\* record id 0 selects the same single-record call, with 0 as the record
\* argument, as any positive id does, positionally or by keyword.
C28_RecordZeroAsAnyId ==
    (GivenRecordZero /\ SelectsByRecord /\ outcome # "TException")
    => /\ outcome = "returned"
       /\ Len(calls) = 1
       /\ calls[1].name = WithRecord(1)[1].name
       /\ calls[1].args = ArgsForZero


\* the remote calls that act on all the keys of a record
WholeRecordCalls ==
    {stem \o n \o t : stem \in {"clear", "get", "select"}, n \in {"Record", "Records"},
                      t \in {"", "Time", "Timestr"}}
\* the caller supplied a key or keys argument, whatever its value
KeysSupplied == In("keys") # None \/ "key" \in DOMAIN op.in.kwargs

\* C29: clear, get and select invoke a whole-record call only when the caller
\* supplied no key or keys argument at all: a supplied keys list, even an
\* empty one, never widens the call to all the keys of the record.
C29_KeysNeverWidened ==
    (op.name \in {"clear", "get", "select"} /\ KeysSupplied)
    => \A i \in 1..Len(calls) : calls[i].name \notin WholeRecordCalls

----------------------------------------------------------------------------
(* Claims about containers, the wire and Link (checked under SpecValues)   *)

\* the integer leaves of a value, in order, with the lists they sit in
SameLeaf(a, b) ==
    IF IsList(a)
    THEN /\ IsList(b) /\ Len(b.v) = Len(a.v)
         /\ \A i \in 1..Len(a.v) : IsInt(b.v[i]) /\ PyEq(a.v[i], b.v[i])
    ELSE IsInt(b) /\ PyEq(a, b)

\* C14: for a mapping with string keys and values that are integers or lists
\* of integers, pythonify(thriftify(m)) has the same keys in the same
\* iteration order and every integer leaf, those inside lists included, is
\* the same integer.
C14_DeepRoundTrip ==
    (phase = "pythonified" /\ IsDict(value))
    => /\ IsDict(py)
       /\ Keys(py) = Keys(value)
       /\ \A i \in 1..Len(value.v) : SameLeaf(value.v[i].v, py.v[i].v)

\* a TObject is met somewhere in x
RECURSIVE HoldsTObject(_)
HoldsTObject(x) ==
    \/ IsTObject(x)
    \/ IsList(x) /\ \E i \in 1..Len(x.v) : HoldsTObject(x.v[i])
    \/ IsDict(x) /\ \E i \in 1..Len(x.v) : HoldsTObject(x.v[i].k) \/ HoldsTObject(x.v[i].v)

\* every TObject met anywhere in x is found unchanged at the same place of y
RECURSIVE UnchangedTObjects(_, _)
UnchangedTObjects(x, y) ==
    IF IsTObject(x) THEN y = x
    ELSE IF IsList(x) /\ IsList(y) /\ Len(y.v) = Len(x.v)
         THEN \A i \in 1..Len(x.v) : UnchangedTObjects(x.v[i], y.v[i])
    ELSE IF IsDict(x) /\ IsDict(y) /\ Len(y.v) = Len(x.v)
         THEN \A i \in 1..Len(x.v) :
                  /\ UnchangedTObjects(x.v[i].k, y.v[i].k)
                  /\ UnchangedTObjects(x.v[i].v, y.v[i].v)
    ELSE ~HoldsTObject(x)

\* C24: thriftify encodes only the leaves that are not TObjects already: a
\* TObject met as a list element, a mapping key or a mapping value is left
\* unchanged, so thriftify(thriftify(x)) = thriftify(x) for every list or
\* mapping x.
C24_ThriftifyIdempotent ==
    /\ (phase = "thriftified" /\ ~IsError(tobject)) => UnchangedTObjects(value, tobject)
    /\ phase = "rethriftified" => py = tobject

\* the kinds thrift_to_python is specified to decode
NineKinds ==
    {"BOOLEAN", "INTEGER", "LONG", "DOUBLE", "FLOAT", "STRING", "TAG", "LINK", "NULL"}

\* C17: thrift_to_python of a TObject whose kind is none of BOOLEAN, INTEGER,
\* LONG, DOUBLE, FLOAT, STRING, TAG, LINK, NULL is a usage error and returns
\* no value; a NULL kind decodes to None.
C17_UnknownKindIsError ==
    (phase = "decoded" /\ IsTObject(value))
    => /\ value.type \notin NineKinds => IsError(py)
       /\ value.type = "NULL" => py = None

\* C18 as stated: constructing a Link fails unless the record identifier is a
\* non-negative integer.
C18_NonNegativeOnly ==
    phase = "linked"
    => (py.t = "Link" <=> (IsInt(value) /\ ~IntLess(AsInt(value), I(0))))

\* C18: constructing a Link fails unless the record identifier is an integer
\* (a bool counts as one); every integer, a negative one included, yields a
\* Link that points to it.
C18_IntegerOnly ==
    phase = "linked"
    => /\ IsInt(value) => (py.t = "Link" /\ py.record = value)
       /\ ~IsInt(value) => py = Error("ValueError")
C18_Witness ==
    /\ phase = "linked"
    /\ value = I(-1)
    /\ py.t = "Link" /\ py.record = I(-1)


\* C30: pythonify of a mapping returns a mapping with exactly as many entries
\* as the wire mapping had, for keys of every kind: no two distinct wire keys
\* are merged into one entry, and no key kind makes decoding fail.
C30_EntriesPreserved ==
    phase = "answered" => IsDict(py) /\ Len(py.v) = Len(value.v)

=============================================================================
